---- MODULE Spec2Model ----
(***************************************************************************)
(* A model of the ad-library scraper: AdScraperApp.run (src/main.py)       *)
(* driving the generator FacebookScraper.scrape_ads                        *)
(* (src/scrapers/facebook_scraper.py) and handing its records to           *)
(* CsvStorage.save_ad_data (src/storage/csv_storage.py).                   *)
(*                                                                         *)
(* The program is single-threaded: `pc` is the one point of control, which *)
(* moves between the application, the generator body and back at each      *)
(* yield.  The only asynchronous event is a signal, whose handler sets     *)
(* AdScraperApp.interrupted.                                               *)
(*                                                                         *)
(* Driver calls the code guards with a handler (driver.get, element.text,  *)
(* the image lookups, click) may fail; driver calls it does not guard are  *)
(* taken to succeed.  Attribute lookups on the selector table fail exactly *)
(* when the table lacks the name.                                          *)
(***************************************************************************)
EXTENDS Integers, Sequences, FiniteSets, TLC

(***************************************************************************)
(* Bounds of the model.                                                    *)
(***************************************************************************)
MaxCards == 3
MaxAdsArg == 1

None == "None"

(***************************************************************************)
(* The selector table.  FacebookSelectors is the class as written in       *)
(* src/ad_selectors.py; ScraperSelectorNames are the attributes            *)
(* facebook_scraper.py reads from self.selectors.  The names               *)
(* AD_CARD_CONTAINER_XPATH, LEARN_MORE_BUTTON_XPATH and                    *)
(* MULTIPLE_VERSIONS_INDICATOR_XPATH (and two read only by unused helpers) *)
(* are read but not defined.                                               *)
(***************************************************************************)
FacebookSelectors ==
    { "AD_CARD_CONTAINER", "AD_CARD_CONTAINER_ALT",
      "LIBRARY_ID", "LIBRARY_ID_XPATH",
      "START_DATE", "START_DATE_ALT",
      "PLATFORMS", "PLATFORMS_ALT",
      "THUMBNAIL_IMAGE", "THUMBNAIL_IMAGE_XPATH",
      "LEARN_MORE_LINK", "LEARN_MORE_LINK_XPATH",
      "SEE_AD_DETAILS_BUTTON", "SEE_AD_DETAILS_BUTTON_XPATH",
      "MULTIPLE_VERSIONS_SECTION", "MULTIPLE_VERSIONS_SECTION_XPATH",
      "MULTIPLE_VERSIONS_IMAGES", "MULTIPLE_VERSIONS_IMAGES_XPATH",
      "CLOSE_BUTTON", "CLOSE_BUTTON_XPATH",
      "SPONSORED_ANCHOR", "LOAD_MORE_BUTTON", "LOAD_MORE_TRIGGER" }

ScraperSelectorNames ==
    { "AD_CARD_CONTAINER_XPATH", "LIBRARY_ID_XPATH", "START_DATE_XPATH",
      "PLATFORMS_XPATH", "LEARN_MORE_BUTTON_XPATH",
      "MULTIPLE_VERSIONS_INDICATOR_XPATH", "SEE_AD_DETAILS_BUTTON_XPATH",
      "CLOSE_BUTTON_XPATH" }

\* The tables the scraper is run against: the shipped class, and a table that
\* also defines every name the scraper reads (self.selectors is a plain
\* attribute of the scraper).  Only under the second is a card ever located.
SelectorTables == { FacebookSelectors, FacebookSelectors \cup ScraperSelectorNames }

\* getattr(self.selectors, name) succeeds; otherwise AttributeError is raised.
HasAttr(sel, name) == name \in sel

(***************************************************************************)
(* Card text.  A text is a sequence of tokens separated by white space.    *)
(* "KO_LIBRARY_ID:" and "KO_LIBRARYID:" stand for the Korean labels of     *)
(* lines 286 and 288, "KO_PLATFORM" for the Korean word of line 425.       *)
(***************************************************************************)
DigitRuns == { "123456", "777" }

IdPatterns == << "KO_LIBRARY_ID:", "Library ID:", "KO_LIBRARYID:", "LibraryID:" >>

\* Variant: the capture group takes whatever follows the label.
RECURSIVE SearchId_any_run(_, _, _)
SearchId_any_run(label, text, p) ==
    IF p >= Len(text) THEN ""
    ELSE IF text[p] = label THEN text[p + 1]
    ELSE SearchId_any_run(label, text, p + 1)

\* re.search(label \s* (\d+), text): the leftmost label followed by digits.
RECURSIVE SearchId(_, _, _)
SearchId(label, text, p) ==
    IF p >= Len(text) THEN ""
    ELSE IF text[p] = label /\ text[p + 1] \in DigitRuns THEN text[p + 1]
    ELSE SearchId(label, text, p + 1)

RECURSIVE TryIdPatterns(_, _)
TryIdPatterns(text, k) ==
    IF k > Len(IdPatterns) THEN ""
    ELSE LET m == SearchId(IdPatterns[k], text, 1)
         IN  IF m # "" THEN m ELSE TryIdPatterns(text, k + 1)

_extract_library_id_simple(text) == TryIdPatterns(text, 1)

(***************************************************************************)
(* Dates.  A date phrase is one token of the text (one line).  Render      *)
(* spells a phrase and DateLexicon reads a token back into its shape and   *)
(* numbers, as the capture groups and int() do.  The Korean words are      *)
(* written KO_NYEON, KO_WOL, KO_IL (year, month, day), KO_E KO_GEJAE       *)
(* KO_SIJAKHAM (the "started running" phrase of line 307) and, for the     *)
(* labels of lines 376-378, KO_GEJAE_SIJAKIL:, KO_SIJAKIL:,                *)
(* KO_GEJAE_SIJAK:.  \d{1,2} takes any one or two digits, so the month and *)
(* day sets hold values outside the calendar.  FullDates are the month and *)
(* day of the texts with a day, Months those of the texts without, Days    *)
(* the days of the English texts.                                          *)
(***************************************************************************)
Years == { 2025 }
Months == { 6, 7, 13 }
Days == { 1, 32 }
FullDates == { << 6, 26 >>, << 6, 32 >>, << 13, 1 >> }
MonthNames == { "Jul", "Foo" }

FullShapes == { "dot_posted", "dot_full", "dot_tight", "ko_full", "iso", "slash" }
MonthShapes == { "dot_month", "ko_month" }
EnglishShapes == { "en_mdy", "en_dmy" }

Phrases ==
    { [shape |-> s, y |-> y, m |-> md[1], d |-> md[2], mon |-> ""] :
         s \in FullShapes, y \in Years, md \in FullDates }
    \cup [shape : MonthShapes, y : Years, m : Months, d : { 0 }, mon : { "" }]
    \cup [shape : EnglishShapes, y : Years, m : { 0 }, d : Days, mon : MonthNames]

\* Variant: no zero padding.
Pad2_none(n) == ToString(n)

\* {n:02d}
Pad2(n) == IF n < 10 THEN "0" \o ToString(n) ELSE ToString(n)

\* f"{year:04d}-{month:02d}-{day:02d}" for a four-digit year; formatting an
\* int never raises ValueError, whatever its value.
Fmt(y, m, d) == ToString(y) \o "-" \o Pad2(m) \o "-" \o Pad2(d)

Render(r) ==
    CASE r.shape = "dot_posted" ->
           ToString(r.y) \o ". " \o ToString(r.m) \o ". " \o ToString(r.d)
              \o ".KO_E KO_GEJAE KO_SIJAKHAM"
      [] r.shape = "dot_full" ->
           ToString(r.y) \o ". " \o ToString(r.m) \o ". " \o ToString(r.d) \o "."
      [] r.shape = "dot_tight" ->
           ToString(r.y) \o "." \o ToString(r.m) \o "." \o ToString(r.d)
      [] r.shape = "dot_month" -> ToString(r.y) \o ". " \o ToString(r.m) \o "."
      [] r.shape = "ko_full" ->
           ToString(r.y) \o "KO_NYEON " \o ToString(r.m) \o "KO_WOL "
              \o ToString(r.d) \o "KO_IL"
      [] r.shape = "ko_month" -> ToString(r.y) \o "KO_NYEON " \o ToString(r.m) \o "KO_WOL"
      [] r.shape = "iso" -> ToString(r.y) \o "-" \o Pad2(r.m) \o "-" \o Pad2(r.d)
      [] r.shape = "slash" -> ToString(r.m) \o "/" \o ToString(r.d) \o "/" \o ToString(r.y)
      [] r.shape = "en_mdy" ->
           "Started running on " \o r.mon \o " " \o ToString(r.d) \o ", " \o ToString(r.y)
      [] r.shape = "en_dmy" ->
           "Started running on " \o ToString(r.d) \o " " \o r.mon \o " " \o ToString(r.y)

DateLexicon ==
    [tok \in { Render(r) : r \in Phrases } |-> CHOOSE r \in Phrases : Render(r) = tok]

NoPhrase == [shape |-> "word", y |-> 0, m |-> 0, d |-> 0, mon |-> ""]

\* What the capture groups of a match on the token hold.
Lex(tok) == IF tok \in DOMAIN DateLexicon THEN DateLexicon[tok] ELSE NoPhrase

\* The patterns of lines 306-312, 327-330, 359-362, each with the shapes it
\* finds a match in.  The pattern of line 311 needs the text of line 310
\* followed by a suffix no phrase here carries.
DayPatterns ==
    << { "dot_posted" }, { "dot_posted" }, { "dot_posted", "dot_full" },
       { "ko_full" }, { } >>

EnglishPatterns == << { "en_mdy" }, { "en_dmy" } >>

MonthOnlyPatterns ==
    << { "ko_full", "ko_month" },
       { "dot_posted", "dot_full", "dot_tight", "dot_month" } >>

\* The labels each generic pattern of lines 376-378 finds; the text of the
\* first label ends in the second.
GenericPatterns ==
    << { "KO_GEJAE_SIJAKIL:" }, { "KO_GEJAE_SIJAKIL:", "KO_SIJAKIL:" },
       { "KO_GEJAE_SIJAK:" } >>

DateLabels == { "KO_GEJAE_SIJAKIL:", "KO_SIJAKIL:", "KO_GEJAE_SIJAK:" }

\* re.search: the place of the leftmost token of one of the shapes, 0 if none.
SearchShape(text, shapes) ==
    LET hits == { p \in 1..Len(text) : Lex(text[p]).shape \in shapes }
    IN  IF hits = {} THEN 0 ELSE CHOOSE p \in hits : \A q \in hits : p <= q

\* re.search of label \s* ([^\n]+): the place of the leftmost label that a
\* line follows, 0 if none.
SearchLabel(text, labels) ==
    LET hits == { p \in 1..(Len(text) - 1) : text[p] \in labels }
    IN  IF hits = {} THEN 0 ELSE CHOOSE p \in hits : \A q \in hits : p <= q

\* str.lower() on the words used here; any other token is in lower case or
\* has no letters.
LowerTable ==
    [w \in { "Jul", "Foo", "Facebook", "FACEBOOK", "Instagram", "INSTAGRAM", "instaGram" } |->
       CASE w = "Jul" -> "jul"
         [] w = "Foo" -> "foo"
         [] w \in { "Facebook", "FACEBOOK" } -> "facebook"
         [] w \in { "Instagram", "INSTAGRAM", "instaGram" } -> "instagram"]

Lower(w) == IF w \in DOMAIN LowerTable THEN LowerTable[w] ELSE w

\* month_map.get(month_name); 0 stands for None.
month_map(name) ==
    CASE name \in { "jan", "january" } -> 1
      [] name \in { "feb", "february" } -> 2
      [] name \in { "mar", "march" } -> 3
      [] name \in { "apr", "april" } -> 4
      [] name = "may" -> 5
      [] name \in { "jun", "june" } -> 6
      [] name \in { "jul", "july" } -> 7
      [] name \in { "aug", "august" } -> 8
      [] name \in { "sep", "september" } -> 9
      [] name \in { "oct", "october" } -> 10
      [] name \in { "nov", "november" } -> 11
      [] name \in { "dec", "december" } -> 12
      [] OTHER -> 0

DaysInMonth(m) ==
    IF m = 2 THEN 28 ELSE IF m \in { 4, 6, 9, 11 } THEN 30 ELSE 31

\* datetime.strptime accepts the numbers (the years here are not leap years).
ValidDate(m, d) == m \in 1..12 /\ d \in 1..DaysInMonth(m)

\* _parse_any_date_format: the formats of lines 401-406 in order, on the
\* captured line.  '%B %d, %Y' and '%d %B %Y' need a line that is a month name
\* and numbers only, which no phrase here is.
_parse_any_date_format(date_str) ==
    LET r == Lex(date_str)
    IN  IF r.shape \in { "iso", "dot_tight", "ko_full", "dot_full" }
        THEN IF ValidDate(r.m, r.d) THEN Fmt(r.y, r.m, r.d) ELSE ""
        ELSE IF r.shape = "slash"
        THEN IF ValidDate(r.m, r.d) THEN Fmt(r.y, r.m, r.d)
             ELSE IF ValidDate(r.d, r.m) THEN Fmt(r.y, r.d, r.m)
             ELSE ""
        ELSE ""

\* Lines 315-324: the first day-level pattern that matches returns.
RECURSIVE TryDayPatterns(_, _)
TryDayPatterns(text, k) ==
    IF k > Len(DayPatterns) THEN ""
    ELSE LET p == SearchShape(text, DayPatterns[k])
         IN  IF p # 0
             THEN Fmt(Lex(text[p]).y, Lex(text[p]).m, Lex(text[p]).d)
             ELSE TryDayPatterns(text, k + 1)

\* Lines 339-356: a match whose month name is not in month_map is passed over.
RECURSIVE TryEnglishPatterns(_, _)
TryEnglishPatterns(text, k) ==
    IF k > Len(EnglishPatterns) THEN ""
    ELSE LET p == SearchShape(text, EnglishPatterns[k])
             month == IF p = 0 THEN 0 ELSE month_map(Lower(Lex(text[p]).mon))
         IN  IF p # 0 /\ month # 0
             THEN Fmt(Lex(text[p]).y, month, Lex(text[p]).d)
             ELSE TryEnglishPatterns(text, k + 1)

\* Lines 364-372: the day is set to 1.
RECURSIVE TryMonthOnlyPatterns(_, _)
TryMonthOnlyPatterns(text, k) ==
    IF k > Len(MonthOnlyPatterns) THEN ""
    ELSE LET p == SearchShape(text, MonthOnlyPatterns[k])
         IN  IF p # 0
             THEN Fmt(Lex(text[p]).y, Lex(text[p]).m, 1)
             ELSE TryMonthOnlyPatterns(text, k + 1)

\* Lines 381-388: the line after the label, when it parses.
RECURSIVE TryGenericPatterns(_, _)
TryGenericPatterns(text, k) ==
    IF k > Len(GenericPatterns) THEN ""
    ELSE LET p == SearchLabel(text, GenericPatterns[k])
             parsed_date == IF p = 0 THEN "" ELSE _parse_any_date_format(text[p + 1])
         IN  IF parsed_date # "" THEN parsed_date ELSE TryGenericPatterns(text, k + 1)

\* The rule groups in the order of the code: day-level, English, month-only,
\* generic.
_extract_start_date_simple(text) ==
    LET day == TryDayPatterns(text, 1)
        english == TryEnglishPatterns(text, 1)
        month_only == TryMonthOnlyPatterns(text, 1)
    IN  IF day # "" THEN day
        ELSE IF english # "" THEN english
        ELSE IF month_only # "" THEN month_only
        ELSE TryGenericPatterns(text, 1)

Contains(text, tok) == \E p \in 1..Len(text) : text[p] = tok

_extract_platforms_simple(text) ==
    LET p1 == IF Contains(text, "Facebook") \/ Contains(text, "facebook")
              THEN << "Facebook" >> ELSE << >>
        p2 == IF Contains(text, "Instagram") \/ Contains(text, "instagram")
              THEN Append(p1, "Instagram") ELSE p1
        p3 == IF Contains(text, "KO_PLATFORM") THEN Append(p2, "Facebook") ELSE p2
    IN  IF p3 # << >> THEN p3 ELSE << "Facebook" >>

(***************************************************************************)
(* Images.  An img element of a card as _extract_thumbnail_url reads it:   *)
(*   src            the src attribute                                      *)
(*   parent         the class of the parent element: "plain", "profile"    *)
(*                  (a class holding one of the keywords of line 544) or   *)
(*                  "raises" (the lookup of the parent raises)             *)
(*   w, h           the width and height attributes (0: empty); the driver *)
(*                  answers with the element's width and height            *)
(*                  properties, which are decimal integers                 *)
(*   nw, nh         naturalWidth, naturalHeight                            *)
(*   script_ok      the scripts of lines 557-558 return                    *)
(*   y              the y of the bounding rectangle (a script that raises  *)
(*                  or returns nothing leaves position_score at 0, as      *)
(*                  y = 0 does)                                            *)
(***************************************************************************)
\* What lines 515-532 find in a src: it is empty, it starts with "data:", it
\* holds "scontent" or "fbcdn", its lower-case form holds a profile pattern.
SrcTable ==
    [src \in { "", "data:image/gif;base64,R0", "https://example.com/x.jpg",
               "https://scontent/t/profile_picture.jpg", "https://scontent/P60x60/c.jpg",
               "https://scontent/a.jpg", "https://scontent/a2.jpg", "https://fbcdn/b.jpg" } |->
       [empty |-> src = "",
        data |-> src = "data:image/gif;base64,R0",
        cdn |-> src \in { "https://scontent/t/profile_picture.jpg",
                          "https://scontent/P60x60/c.jpg", "https://scontent/a.jpg",
                          "https://scontent/a2.jpg", "https://fbcdn/b.jpg" },
        profile |-> src \in { "https://scontent/t/profile_picture.jpg",
                              "https://scontent/P60x60/c.jpg" }]]

\* Lines 552-565: the attribute, replaced by the natural dimension when the
\* script returned a larger one.
Resolve(attr, natural, script_ok) ==
    IF script_ok /\ natural > attr THEN natural ELSE attr

Width(img) == Resolve(img.w, img.nw, img.script_ok)
Height(img) == Resolve(img.h, img.nh, img.script_ok)

\* Variant: the icon filter is not applied.
TooSmall_never(width, height) == FALSE

\* Line 568.
TooSmall(width, height) == width > 0 /\ height > 0 /\ (width < 80 \/ height < 80)

\* The image passes every continue of lines 515-570.
Survives(img) ==
    /\ ~SrcTable[img.src].empty /\ ~SrcTable[img.src].data
    /\ SrcTable[img.src].cdn
    /\ ~SrcTable[img.src].profile
    /\ img.parent # "profile"
    /\ ~TooSmall(Width(img), Height(img))

Max(x, y) == IF x >= y THEN x ELSE y
Min(x, y) == IF x <= y THEN x ELSE y

\* ratio > 1.2 (line 579), in integers.
Rectangular(width, height) ==
    width > 0 /\ height > 0 /\ 5 * Max(width, height) > 6 * Min(width, height)

\* Lines 573-597.  total_score is size_score + ratio * 10000 + size_bonus *
\* 20000 + position_score * 5000 with ratio = max / min a fraction: the score
\* is kept as whole + rem / den.
TotalScore(img) ==
    LET width == Width(img)
        height == Height(img)
        size_score == width * height
        rect == Rectangular(width, height)
        den == IF rect THEN Min(width, height) ELSE 1
        ratio_times == IF rect THEN 10000 * Max(width, height) ELSE 0
        size_bonus == IF size_score > 50000 THEN 1 ELSE 0
        position_score == IF img.y > 50 THEN 1 ELSE 0
    IN  [whole |-> size_score + (ratio_times \div den) + size_bonus * 20000
                     + position_score * 5000,
         rem |-> ratio_times % den,
         den |-> den]

\* Variant: an equal score also counts as higher.
Higher_or_equal(a, b) ==
    \/ a.whole > b.whole
    \/ a.whole = b.whole /\ a.rem * b.den >= b.rem * a.den

\* Score a is higher than score b.
Higher(a, b) ==
    \/ a.whole > b.whole
    \/ a.whole = b.whole /\ a.rem * b.den > b.rem * a.den

\* Lines 513-609: the candidates, in the order of the images.
RECURSIVE Candidates(_, _)
Candidates(all_imgs, k) ==
    IF k > Len(all_imgs) THEN << >>
    ELSE LET img == all_imgs[k]
             rest == Candidates(all_imgs, k + 1)
         IN  IF Survives(img)
             THEN << [url |-> img.src, width |-> Width(img), height |-> Height(img),
                      total_score |-> TotalScore(img)] >> \o rest
             ELSE rest

\* Lines 613-616: candidates.sort(key total_score, reverse=True) and its first
\* element.  The sort is stable, also when reversed: among equal scores the
\* candidate appended first stays first.
RECURSIVE FirstOfSorted(_, _, _)
FirstOfSorted(candidates, k, best) ==
    IF k > Len(candidates) THEN best
    ELSE FirstOfSorted(candidates, k + 1,
                       IF Higher(candidates[k].total_score, best.total_score)
                       THEN candidates[k] ELSE best)

\* Lines 510-620 once the images are found.
SelectThumbnail(all_imgs) ==
    LET candidates == Candidates(all_imgs, 1)
    IN  IF candidates = << >> THEN ""
        ELSE FirstOfSorted(candidates, 2, candidates[1]).url

\* An image with nothing against it.
ContentImage(src, width, height) ==
    [src |-> src, parent |-> "plain", w |-> width, h |-> height, nw |-> width, nh |-> height,
     script_ok |-> TRUE, y |-> 100]

(***************************************************************************)
(* Cards.  located_text: element.text as _is_complete_ad_card reads it     *)
(* (line 217) while the cards are located.  text: card_element.text as     *)
(* _scrape_ad_card reads it later (line 239); the page is live, so the two *)
(* reads may differ.  stale: that later read raises.  img_fault: the       *)
(* lookup of the card's images raises inside _extract_thumbnail_url.       *)
(* imgs: the img elements of the card.  link: the href the learn-more      *)
(* lookup finds ("" when none).                                            *)
(***************************************************************************)
Cards ==
    { [text |-> << "Library ID:", "123456", "Started running on Jul 1, 2025", "Facebook" >>,
       located_text |-> << "Library ID:", "123456", "Started running on Jul 1, 2025", "Facebook" >>,
       stale |-> FALSE, img_fault |-> FALSE,
       imgs |-> << ContentImage("https://scontent/t/profile_picture.jpg", 60, 60),
                   ContentImage("https://scontent/a.jpg", 800, 500) >>,
       link |-> "https://l.facebook.com/a"],
      [text |-> << "KO_LIBRARY_ID:", "123456", "2025. 6. 26.", "Instagram" >>,
       located_text |-> << "KO_LIBRARY_ID:", "123456", "2025. 6. 26.", "Instagram" >>,
       stale |-> FALSE, img_fault |-> TRUE,
       imgs |-> << ContentImage("https://scontent/a2.jpg", 800, 500) >>, link |-> ""],
      [text |-> << "Library ID:", "777", "2025. 6. 26.", "Facebook", "Instagram" >>,
       located_text |-> << "Library ID:", "777", "2025. 6. 26.", "Facebook", "Instagram" >>,
       stale |-> FALSE, img_fault |-> FALSE,
       imgs |-> << ContentImage("https://fbcdn/b.jpg", 500, 800) >>,
       link |-> "https://l.facebook.com/b"],
      [text |-> << "Sponsored", "2025. 6. 26." >>,
       located_text |-> << "Library ID:", "Sponsored", "2025. 6. 26." >>,
       stale |-> FALSE, img_fault |-> FALSE, imgs |-> << >>, link |-> ""],
      [text |-> << >>,
       located_text |-> << "Library ID:", "123456", "Facebook" >>,
       stale |-> FALSE, img_fault |-> FALSE, imgs |-> << >>, link |-> ""],
      [text |-> << "Library ID:", "777" >>,
       located_text |-> << "Library ID:", "777", "Facebook" >>,
       stale |-> TRUE, img_fault |-> FALSE, imgs |-> << >>, link |-> ""] }

RECURSIVE SeqsUpTo(_, _)
SeqsUpTo(S, n) ==
    IF n = 0 THEN { << >> }
    ELSE LET shorter == SeqsUpTo(S, n - 1)
         IN  shorter \cup { Append(s, x) : s \in { t \in shorter : Len(t) = n - 1 }, x \in S }

Pages == SeqsUpTo(Cards, MaxCards)

PageIds == { "", "119546338123785" }


(***************************************************************************)
(* FacebookScraper: extraction of one card.                                *)
(***************************************************************************)
\* The url of the best candidate; an exception raised by the lookup of the
\* images is caught by the handler of line 622, which returns "".
_extract_thumbnail_url(card) ==
    IF card.img_fault THEN "" ELSE SelectThumbnail(card.imgs)

\* Reads self.selectors.LEARN_MORE_BUTTON_XPATH inside its try block: when the
\* table lacks the name the AttributeError is caught and "" is returned.
_extract_learn_more_url(sel, card) ==
    IF ~HasAttr(sel, "LEARN_MORE_BUTTON_XPATH") THEN "" ELSE card.link

NoAdData ==
    [platform |-> "facebook", library_id |-> "", start_date |-> "",
     platforms |-> << "Facebook" >>, thumbnail_url |-> "", learn_more_url |-> ""]

\* Variant: no early return when the identifier is empty.
_scrape_ad_card_no_id_check(sel, card, card_index) ==
    IF card.stale
    THEN [returned |-> "None", ad_data |-> NoAdData, caught |-> TRUE, raised |-> FALSE,
          steps |-> { "text" }]
    ELSE IF card.text = << >>
    THEN [returned |-> "None", ad_data |-> NoAdData, caught |-> FALSE, raised |-> FALSE,
          steps |-> { "text" }]
    ELSE [returned |-> "ad_data",
          ad_data |-> [platform |-> "facebook",
                       library_id |-> _extract_library_id_simple(card.text),
                       start_date |-> _extract_start_date_simple(card.text),
                       platforms |-> _extract_platforms_simple(card.text),
                       thumbnail_url |-> _extract_thumbnail_url(card),
                       learn_more_url |-> _extract_learn_more_url(sel, card)],
          caught |-> FALSE, raised |-> FALSE,
          steps |-> { "text", "library_id", "start_date", "platforms",
                      "thumbnail_url", "learn_more_url" }]

\* What _scrape_ad_card returns: "None" or "ad_data" (with the record), the
\* extraction steps it ran, and whether its own handler (line 276) caught an
\* exception.  That handler catches every Exception, so the function never
\* raises one to its caller (raised is FALSE on every path).
_scrape_ad_card(sel, card, card_index) ==
    IF card.stale
    THEN [returned |-> "None", ad_data |-> NoAdData, caught |-> TRUE, raised |-> FALSE,
          steps |-> { "text" }]
    ELSE IF card.text = << >>
    THEN [returned |-> "None", ad_data |-> NoAdData, caught |-> FALSE, raised |-> FALSE,
          steps |-> { "text" }]
    ELSE IF _extract_library_id_simple(card.text) = ""
    THEN [returned |-> "None", ad_data |-> NoAdData, caught |-> FALSE, raised |-> FALSE,
          steps |-> { "text", "library_id" }]
    ELSE [returned |-> "ad_data",
          ad_data |-> [platform |-> "facebook",
                       library_id |-> _extract_library_id_simple(card.text),
                       start_date |-> _extract_start_date_simple(card.text),
                       platforms |-> _extract_platforms_simple(card.text),
                       thumbnail_url |-> _extract_thumbnail_url(card),
                       learn_more_url |-> _extract_learn_more_url(sel, card)],
          caught |-> FALSE, raised |-> FALSE,
          steps |-> { "text", "library_id", "start_date", "platforms",
                      "thumbnail_url", "learn_more_url" }]

\* Line 88: if ad_data and ad_data.get('library_id')
HasLibraryId(res) ==
    ~res.raised /\ res.returned = "ad_data" /\ res.ad_data.library_id # ""

\* Variant: the seen-set is not consulted.
NotProcessed_always(library_id, seen) == TRUE

\* Line 90: ad_data['library_id'] not in self.processed_library_ids
NotProcessed(library_id, seen) == library_id \notin seen

\* Variant: a record with an identifier is accepted whether seen or not.
CardOutcome_seen_or_not(res, seen) ==
    IF HasLibraryId(res) THEN "accepted"
    ELSE IF res.raised \/ res.caught THEN "faulted" ELSE "rejected"

\* The outcome of one iteration of the card loop (lines 86-100).
CardOutcome(res, seen) ==
    IF HasLibraryId(res)
    THEN IF NotProcessed(res.ad_data.library_id, seen) THEN "accepted" ELSE "duplicate"
    ELSE IF res.raised \/ res.caught THEN "faulted" ELSE "rejected"

\* Variant: a card that faulted ends the loop.
NextIndex_stop_on_fault(i, n, out) == IF out = "faulted" THEN n + 1 ELSE i + 1

\* Where the loop over the n cards goes after an iteration that yields
\* nothing, whatever its outcome: to the next card.
NextIndex(i, n, out) == i + 1

(***************************************************************************)
(* BaseScraper                                                             *)
(***************************************************************************)
NavigationError == [kind |-> "Navigation error", index |-> -1]
CardError(i) == [kind |-> "Ad card error", index |-> i]

\* Variant: a failed navigation is not recorded.
navigate_to_page_silent(ok, errs) == [result |-> ok, errors |-> errs]

\* navigate_to_page: ok is whether driver.get(url) returned without raising.
navigate_to_page(ok, errs) ==
    [result |-> ok, errors |-> IF ok THEN errs ELSE Append(errs, NavigationError)]

get_scraping_statistics(total, errs, seen) ==
    [platform |-> "facebook", total_scraped |-> total, errors |-> Len(errs),
     error_details |-> errs, unique_ads_found |-> Cardinality(seen)]

(***************************************************************************)
(* Storage                                                                 *)
(***************************************************************************)
\* scraped_at is a timestamp and multiple_versions_images may be empty:
\* neither can fail the check.
validate_ad_data(ad_data) ==
    /\ ad_data.library_id # ""
    /\ ad_data.start_date # ""
    /\ ad_data.platforms # << >>
    /\ ad_data.thumbnail_url # ""
    /\ ad_data.learn_more_url # ""
    /\ ad_data.platform # ""

save_ad_data(ad_data, rows) ==
    IF validate_ad_data(ad_data)
    THEN [ok |-> TRUE, rows |-> Append(rows, ad_data)]
    ELSE [ok |-> FALSE, rows |-> rows]

\* save_batch_data: records that fail validate_ad_data are passed over (the
\* continue of line 139), the others are written and True is returned; False
\* is returned only from the handler of line 152, when opening or writing the
\* file raised (io_ok is FALSE).
save_batch_data(ads_data, rows, io_ok) ==
    IF io_ok
    THEN [ok |-> TRUE, rows |-> rows \o SelectSeq(ads_data, validate_ad_data)]
    ELSE [ok |-> FALSE, rows |-> rows]

(***************************************************************************)
(* State                                                                   *)
(***************************************************************************)
VARIABLES
    pc,                     \* the point of control
    selectors,              \* FacebookScraper.selectors
    args,                   \* AdScraperApp.args: page_id, max_ads (0: not given)
    page,                   \* the cards the loaded document holds
    interrupted,            \* AdScraperApp.interrupted
    exit_code,              \* what run returned (-1: has not returned)
    ads_scraped, ads_saved, \* locals of _run_scraping
    summary,                \* what _generate_summary reported
    csv,                    \* the rows of the CSV file
    scraper, storage,       \* AdScraperApp.scraper, AdScraperApp.storage
    is_initialized, driver, \* BaseScraper.is_initialized, BaseScraper.driver
    total_scraped, errors,  \* BaseScraper.total_scraped, BaseScraper.errors
    processed_library_ids,  \* FacebookScraper.processed_library_ids
    ad_cards, idx,          \* locals of scrape_ads: the located cards, 1 + i
    gen,                    \* the generator object's state
    yielded,                \* history: the records yielded, with their card
    sink,                   \* history: the records passed to save_ad_data
    outcome,                \* history: per located card, the outcomes it had
    steps,                  \* history: per located card, the steps run on it
    nav,                    \* history: navigation attempts and the last result
    scrolls, located,       \* history: calls of scroll_to_bottom, _find_ad_cards
    sig,                    \* history: where the signal arrived
    overlay_open,           \* the document shows a detail overlay
    mv_log,                 \* history: the calls of _extract_multiple_versions
    call,                   \* the last call of a function applied on its own
    report                  \* history: what _initialize_components and
                            \* _run_scraping returned, which components
                            \* _cleanup closed

appVars == << args, exit_code, ads_scraped, ads_saved, summary, csv, scraper, storage >>
scraperVars == << selectors, is_initialized, driver, total_scraped, errors,
                  processed_library_ids, ad_cards, idx, gen >>
histVars == << yielded, sink, outcome, steps, nav, scrolls, located >>
mvVars == << overlay_open, mv_log >>
fnVars == << call >>
runVars == << report >>
vars == << pc, page, interrupted, sig, appVars, scraperVars, histVars, mvVars, fnVars,
           runVars >>

NoCall == [fn |-> "none"]

NoReport == [initialized |-> "none", scraping |-> "none", closed |-> {}]

NoSummary == [generated |-> FALSE, total_scraped |-> 0, errors |-> 0, total_ads |-> 0]

Init ==
    /\ pc = "run"
    /\ selectors \in SelectorTables
    /\ args \in [page_id : PageIds, max_ads : 0..MaxAdsArg]
    /\ page \in Pages
    /\ interrupted = FALSE
    /\ exit_code = -1
    /\ ads_scraped = 0 /\ ads_saved = 0
    /\ summary = NoSummary
    /\ csv = << >>
    /\ scraper = None /\ storage = None
    /\ is_initialized = FALSE /\ driver = None
    /\ total_scraped = 0 /\ errors = << >>
    /\ processed_library_ids = {}
    /\ ad_cards = << >> /\ idx = 0
    /\ gen = "none"
    /\ yielded = << >> /\ sink = << >>
    /\ outcome = << >> /\ steps = << >>
    /\ nav = [attempts |-> 0, result |-> "none"]
    /\ scrolls = 0 /\ located = 0
    /\ sig = [seen |-> FALSE, card |-> 0]
    /\ overlay_open = FALSE /\ mv_log = << >>
    /\ call = NoCall
    /\ report = NoReport


(***************************************************************************)
(* AdScraperApp.run                                                        *)
(***************************************************************************)
\* _initialize_components (main.py lines 115-156): storage first, then the
\* scraper and its browser.  Any step may raise; the handler returns False
\* and run returns 1.  fail names the step that raised: the preparation of
\* the output directory (no component exists yet), storage.initialize,
\* webdriver.Chrome (base.py line 82: the scraper exists without a driver),
\* or a driver call of base.py lines 83-89 (the driver exists,
\* is_initialized stays False).
InitializeComponents ==
    /\ pc = "run"
    /\ \E fail \in { "none", "output_dir", "storage", "scraper", "browser" } :
         /\ storage' = IF fail = "output_dir" THEN None ELSE "CsvStorage"
         /\ scraper' = IF fail \in { "output_dir", "storage" } THEN None
                       ELSE "FacebookScraper"
         /\ is_initialized' = (fail = "none")
         /\ driver' = IF fail \in { "none", "browser" } THEN "Chrome" ELSE None
         /\ exit_code' = IF fail = "none" THEN exit_code ELSE 1
         /\ report' = [report EXCEPT !.initialized = IF fail = "none" THEN "True" ELSE "False"]
         /\ pc' = IF fail = "none" THEN "run_scraping" ELSE "cleanup"
    /\ UNCHANGED << fnVars, mvVars, page, interrupted, sig, args, ads_scraped, ads_saved, summary, csv,
                    selectors, total_scraped, errors, processed_library_ids,
                    ad_cards, idx, gen, histVars >>

\* _build_search_params: page_id is passed on only when it was given.
_build_search_params(a) == [page_id |-> a.page_id]

\* Variant: a missing page_id is not checked.
_build_search_url_unchecked(search_params) == [raised |-> FALSE, url |-> "view_all_page_id"]

\* _build_search_url raises ValueError when page_id is missing or empty.
_build_search_url(search_params) ==
    IF search_params.page_id = ""
    THEN [raised |-> TRUE, url |-> ""]
    ELSE [raised |-> FALSE, url |-> "view_all_page_id"]

\* _run_scraping up to the first request to the generator, and scrape_ads up
\* to its navigation (lines 64-68).  A ValueError leaves the generator and is
\* caught by _run_scraping, which returns False.
StartScraping ==
    /\ pc = "run_scraping"
    /\ LET url == _build_search_url(_build_search_params(args))
       IN  /\ gen' = IF url.raised THEN "raised" ELSE "running"
           /\ exit_code' = IF url.raised THEN 1 ELSE exit_code
           /\ report' = IF url.raised THEN [report EXCEPT !.scraping = "False"] ELSE report
           /\ pc' = IF url.raised THEN "cleanup" ELSE "gen_nav"
    /\ UNCHANGED << fnVars, mvVars, page, interrupted, sig, args, ads_scraped, ads_saved, summary, csv,
                    scraper, storage, selectors, is_initialized, driver,
                    total_scraped, errors, processed_library_ids, ad_cards, idx,
                    histVars >>

\* scrape_ads lines 71-72: a failed navigation ends the generator.
Navigate ==
    /\ pc = "gen_nav"
    /\ \E ok \in BOOLEAN :
         LET r == navigate_to_page(ok, errors)
         IN  /\ errors' = r.errors
             /\ nav' = [attempts |-> nav.attempts + 1,
                        result |-> IF r.result THEN "ok" ELSE "failed"]
             /\ gen' = IF r.result THEN gen ELSE "exhausted"
             /\ pc' = IF r.result THEN "gen_scroll" ELSE "archive"
    /\ UNCHANGED << fnVars, runVars, mvVars, page, interrupted, sig, appVars, selectors, is_initialized, driver,
                    total_scraped, processed_library_ids, ad_cards, idx,
                    yielded, sink, outcome, steps, scrolls, located >>

\* scrape_ads lines 75-78: _wait_for_page_load and scroll_to_bottom, whose
\* results are not used.
WaitAndScroll ==
    /\ pc = "gen_scroll"
    /\ scrolls' = scrolls + 1
    /\ pc' = "gen_find"
    /\ UNCHANGED << fnVars, runVars, mvVars, page, interrupted, sig, appVars, scraperVars,
                    yielded, sink, outcome, steps, nav, located >>

(***************************************************************************)
(* The document the card locator walks.  An element is a position in       *)
(* document.nodes (WebElement equality is equality of the element id); a   *)
(* node has its tag, its parent (0 for the html element), the text         *)
(* element.text returns and whether that read raises.  document.markers    *)
(* are the elements AD_CARD_CONTAINER_XPATH finds, in document order.      *)
(***************************************************************************)

\* The tokens in which each substring tested on lines 218-220 occurs.  The
\* tests are case-sensitive and 'Library ID:' holds a space.
Occurs ==
    [ probe \in { "KO_LIBRARY_ID:", "Library ID:", "2025", "2024",
                  "Facebook", "Instagram", "KO_PLATFORM" } |->
        CASE probe = "KO_LIBRARY_ID:" -> { "KO_LIBRARY_ID:" }
          [] probe = "Library ID:"    -> { "Library ID:" }
          [] probe = "2025"           -> { "Started running on Jul 1, 2025", "2025. 6. 26." }
          [] probe = "2024"           -> { "2024. 1. 5." }
          [] probe = "Facebook"       -> { "Facebook" }
          [] probe = "Instagram"      -> { "Instagram" }
          [] probe = "KO_PLATFORM"    -> { "KO_PLATFORM" } ]

\* probe in text_content
In(probe, text_content) ==
    \E p \in 1..Len(text_content) : text_content[p] \in Occurs[probe]

\* Lines 213-224.  The bare except of line 223 turns a failed read of
\* element.text into False.
_is_complete_ad_card(element) ==
    IF element.stale THEN FALSE
    ELSE LET text_content == element.text
             has_library_id == In("KO_LIBRARY_ID:", text_content) \/ In("Library ID:", text_content)
             has_date == In("2025", text_content) \/ In("2024", text_content)
             has_platforms == \/ In("Facebook", text_content)
                              \/ In("Instagram", text_content)
                              \/ In("KO_PLATFORM", text_content)
         IN  has_library_id /\ (has_date \/ has_platforms)

\* range(5), line 197.
Levels == 5

\* Variant: the walk does not stop at the body element.
RECURSIVE Climb_past_body(_, _, _)
Climb_past_body(document, current, left) ==
    IF left = 0 \/ document.nodes[current].parent = 0 THEN 0
    ELSE LET parent == document.nodes[current].parent
         IN  IF _is_complete_ad_card(document.nodes[parent]) THEN parent
             ELSE Climb_past_body(document, parent, left - 1)

\* Lines 197-208: the walk from one marker, with left iterations to go.  The
\* accepted element, or 0 when the loop ends without one.
RECURSIVE Climb(_, _, _)
Climb(document, current, left) ==
    IF left = 0 THEN 0
    ELSE IF document.nodes[current].tag = "body" THEN 0
    ELSE LET parent == document.nodes[current].parent
         IN  IF _is_complete_ad_card(document.nodes[parent]) THEN parent
             ELSE Climb(document, parent, left - 1)

\* parent in ad_cards
InList(element, list) == \E k \in 1..Len(list) : list[k] = element

\* Variant: every accepted ancestor is appended.
RECURSIVE CollectCards_no_membership_test(_, _, _)
CollectCards_no_membership_test(document, k, ad_cards_) ==
    IF k > Len(document.markers) THEN ad_cards_
    ELSE LET parent == Climb(document, document.markers[k], Levels)
         IN  CollectCards_no_membership_test(document, k + 1,
                IF parent # 0 THEN Append(ad_cards_, parent) ELSE ad_cards_)

\* Lines 195-208: the loop over the markers from the k-th on.
RECURSIVE CollectCards(_, _, _)
CollectCards(document, k, ad_cards_) ==
    IF k > Len(document.markers) THEN ad_cards_
    ELSE LET parent == Climb(document, document.markers[k], Levels)
         IN  CollectCards(document, k + 1,
                IF parent # 0 /\ ~InList(parent, ad_cards_)
                THEN Append(ad_cards_, parent) ELSE ad_cards_)

\* _find_ad_cards reads self.selectors.AD_CARD_CONTAINER_XPATH outside any try
\* block: without the name it raises AttributeError.  cards are the elements
\* returned, in order.
_find_ad_cards(sel, document) ==
    IF ~HasAttr(sel, "AD_CARD_CONTAINER_XPATH")
    THEN [raised |-> TRUE, cards |-> << >>]
    ELSE [raised |-> FALSE, cards |-> CollectCards(document, 1, << >>)]

\* The document of a results page: html, body, under body one element per
\* card of the page (elements 3..Len(page)+2, in page order), and in each
\* card one marker.
Document(cards) ==
    LET n == Len(cards)
    IN  [nodes |-> [e \in 1..(2 * n + 2) |->
                      IF e = 1 THEN [tag |-> "html", parent |-> 0, text |-> << >>, stale |-> FALSE]
                      ELSE IF e = 2 THEN [tag |-> "body", parent |-> 1, text |-> << >>, stale |-> FALSE]
                      ELSE IF e <= n + 2
                      THEN [tag |-> "div", parent |-> 2,
                            text |-> cards[e - 2].located_text, stale |-> FALSE]
                      ELSE [tag |-> "div", parent |-> e - n,
                            text |-> << "Library ID:" >>, stale |-> FALSE]],
         markers |-> [k \in 1..n |-> n + 2 + k]]

\* scrape_ads lines 81-82.  An exception leaves the generator and is caught by
\* _run_scraping, which returns False.
FindAdCards ==
    /\ pc = "gen_find"
    /\ LET found == _find_ad_cards(selectors, Document(page))
       IN  /\ located' = located + 1
           /\ ad_cards' = [k \in 1..Len(found.cards) |-> page[found.cards[k] - 2]]
           /\ idx' = IF found.raised THEN idx ELSE 1
           /\ outcome' = [i \in 1..Len(found.cards) |-> {}]
           /\ steps' = [i \in 1..Len(found.cards) |-> {}]
           /\ gen' = IF found.raised THEN "raised" ELSE gen
           /\ exit_code' = IF found.raised THEN 1 ELSE exit_code
           /\ report' = IF found.raised THEN [report EXCEPT !.scraping = "False"] ELSE report
           /\ pc' = IF found.raised THEN "cleanup" ELSE "gen_loop"
    /\ UNCHANGED << fnVars, mvVars, page, interrupted, sig, args, ads_scraped, ads_saved, summary, csv,
                    scraper, storage, selectors, is_initialized, driver,
                    total_scraped, errors, processed_library_ids,
                    yielded, sink, nav, scrolls >>

\* Line 85: the loop takes the next card.
CardBegin ==
    /\ pc = "gen_loop"
    /\ idx <= Len(ad_cards)
    /\ pc' = "gen_card"
    /\ UNCHANGED << fnVars, runVars, mvVars, page, interrupted, sig, appVars, scraperVars, histVars >>

\* Line 85 with no card left: the generator ends and so does the for loop of
\* _run_scraping.
LoopExhausted ==
    /\ pc = "gen_loop"
    /\ idx > Len(ad_cards)
    /\ gen' = "exhausted"
    /\ pc' = "archive"
    /\ UNCHANGED << fnVars, runVars, mvVars, page, interrupted, sig, appVars, selectors, is_initialized, driver,
                    total_scraped, errors, processed_library_ids, ad_cards, idx,
                    histVars >>

\* Lines 86-100: one card, up to the yield or to the end of the iteration.
ScrapeCard ==
    /\ pc = "gen_card"
    /\ LET res == _scrape_ad_card(selectors, ad_cards[idx], idx - 1)
           out == CardOutcome(res, processed_library_ids)
       IN  /\ outcome' = [outcome EXCEPT ![idx] = @ \cup { out }]
           /\ steps' = [steps EXCEPT ![idx] = @ \cup res.steps]
           /\ errors' = IF res.raised THEN Append(errors, CardError(idx - 1)) ELSE errors
           /\ IF out = "accepted"
              THEN /\ processed_library_ids' =
                          processed_library_ids \cup { res.ad_data.library_id }
                   /\ total_scraped' = total_scraped + 1
                   /\ yielded' = Append(yielded, [card |-> idx - 1, ad_data |-> res.ad_data])
                   /\ gen' = "suspended"
                   /\ pc' = "yielded"
                   /\ idx' = idx
              ELSE /\ idx' = NextIndex(idx, Len(ad_cards), out)
                   /\ pc' = "gen_loop"
                   /\ UNCHANGED << processed_library_ids, total_scraped, yielded, gen >>
    /\ UNCHANGED << fnVars, runVars, mvVars, page, interrupted, sig, appVars, selectors, is_initialized, driver,
                    ad_cards, sink, nav, scrolls, located >>

\* Variant: the record is kept back instead of being passed on.
Deliver_later(passed, ad_data) == passed

\* The record is passed to the storage.
Deliver(passed, ad_data) == Append(passed, ad_data)

\* Variant: the loop is left only once the limit is exceeded.
ReachedMaxAds_when_exceeded(max_ads, saved) == max_ads # 0 /\ saved > max_ads

\* main.py line 190: self.args.max_ads and ads_saved >= self.args.max_ads.
\* max_ads is falsy when --max-ads was not given (None) and when it is 0.
ReachedMaxAds(max_ads, saved) == max_ads # 0 /\ saved >= max_ads

\* _run_scraping lines 176-196: the body of the for loop for one record, and
\* either the break or the request for the next record, which resumes the
\* generator after its yield.
Consume ==
    /\ pc = "yielded"
    /\ LET ad_data == yielded[Len(yielded)].ad_data
           saved == save_ad_data(ad_data, csv)
           n_saved == IF saved.ok THEN ads_saved + 1 ELSE ads_saved
       IN  IF interrupted
           THEN /\ gen' = "closed"
                /\ pc' = "archive"
                /\ UNCHANGED << ads_scraped, ads_saved, csv, sink, idx >>
           ELSE /\ ads_scraped' = ads_scraped + 1
                /\ sink' = Deliver(sink, ad_data)
                /\ csv' = saved.rows
                /\ ads_saved' = n_saved
                /\ IF ReachedMaxAds(args.max_ads, n_saved)
                   THEN /\ gen' = "closed"
                        /\ pc' = "archive"
                        /\ idx' = idx
                   ELSE /\ gen' = "running"
                        /\ pc' = "gen_loop"
                        /\ idx' = idx + 1
    /\ UNCHANGED << fnVars, runVars, mvVars, page, interrupted, sig, args, exit_code, summary, scraper, storage,
                    selectors, is_initialized, driver, total_scraped, errors,
                    processed_library_ids, ad_cards,
                    yielded, outcome, steps, nav, scrolls, located >>

\* _run_scraping lines 198-206: the archive, then return True.
SaveArchive ==
    /\ pc = "archive"
    /\ report' = [report EXCEPT !.scraping = "True"]
    /\ pc' = "summary"
    /\ UNCHANGED << fnVars, mvVars, page, interrupted, sig, appVars, scraperVars, histVars >>

\* run lines 80-84.
GenerateSummary ==
    /\ pc = "summary"
    /\ LET stats == get_scraping_statistics(total_scraped, errors, processed_library_ids)
       IN  summary' = [generated |-> TRUE, total_scraped |-> stats.total_scraped,
                       errors |-> stats.errors, total_ads |-> Len(csv)]
    /\ exit_code' = 0
    /\ pc' = "cleanup"
    /\ UNCHANGED << fnVars, runVars, mvVars, page, interrupted, sig, args, ads_scraped, ads_saved, csv,
                    scraper, storage, scraperVars, histVars >>

\* Variant: close leaves the driver in place.
close_keeps_driver(drv) == [driver |-> drv, is_initialized |-> FALSE]

\* BaseScraper.close (base.py lines 321-334): driver.quit() when there is a
\* driver, its failure swallowed by the bare except; then driver = None and
\* is_initialized = False.
close(drv) == [driver |-> None, is_initialized |-> FALSE]

\* run's finally (main.py line 93): _cleanup (lines 259-271) closes the
\* scraper and the storage when they exist.  CsvStorage.close does nothing
\* (csv_storage.py lines 302-308).
Cleanup ==
    /\ pc = "cleanup"
    /\ driver' = IF scraper # None THEN close(driver).driver ELSE driver
    /\ is_initialized' = IF scraper # None THEN close(driver).is_initialized
                         ELSE is_initialized
    /\ report' = [report EXCEPT !.closed =
                     (IF scraper # None THEN { "scraper" } ELSE {})
                        \cup (IF storage # None THEN { "storage" } ELSE {})]
    /\ pc' = "exit"
    /\ UNCHANGED << fnVars, mvVars, page, interrupted, sig, appVars, selectors, total_scraped, errors,
                    processed_library_ids, ad_cards, idx, gen, histVars >>

\* _signal_handler, at any moment before run returns.
Signal ==
    /\ pc # "exit"
    /\ ~interrupted
    /\ interrupted' = TRUE
    /\ sig' = [seen |-> TRUE, card |-> IF pc = "gen_card" THEN idx ELSE 0]
    /\ UNCHANGED << fnVars, runVars, mvVars, pc, page, appVars, scraperVars, histVars >>

Next ==
    \/ InitializeComponents
    \/ StartScraping
    \/ Navigate
    \/ WaitAndScroll
    \/ FindAdCards
    \/ CardBegin
    \/ LoopExhausted
    \/ ScrapeCard
    \/ Consume
    \/ SaveArchive
    \/ GenerateSummary
    \/ Cleanup
    \/ Signal

Spec == Init /\ [][Next]_vars


(***************************************************************************)
(* FacebookScraper._extract_multiple_versions and _close_modal.  scrape_ads *)
(* does not call them (line 271 is commented out); SpecModal applies the   *)
(* function to one card after another, each with what the browser answers: *)
(*   indicator, button   the element lookups find the element              *)
(*   click               safe_click's result                               *)
(*   opens               the click, whatever its result, opened an overlay *)
(*   images_raise        the lookup of the overlay's images raises         *)
(*   close_ok            the close button or the Escape key closes it      *)
(***************************************************************************)
MaxModalCalls == 3

ModalEnvs ==
    [indicator : BOOLEAN, button : BOOLEAN, click : BOOLEAN, opens : BOOLEAN,
     images_raise : BOOLEAN, close_ok : BOOLEAN]

\* _close_modal: every exception is caught inside; CLOSE_BUTTON_XPATH is a
\* name both tables define.  Returns whether an overlay is still open.
_close_modal(env, open) == open /\ ~env.close_ok

\* _extract_multiple_versions: the exit path taken, whether the step began
\* (the indicator was found), whether _close_modal was called, and whether an
\* overlay is open when it returns.
_extract_multiple_versions(sel, env, open) ==
    IF ~HasAttr(sel, "MULTIPLE_VERSIONS_INDICATOR_XPATH")
    THEN [path |-> "exception", began |-> FALSE, close_called |-> TRUE,
          open |-> _close_modal(env, open)]
    ELSE IF ~env.indicator
    THEN [path |-> "no_indicator", began |-> FALSE, close_called |-> FALSE,
          open |-> open]
    ELSE IF ~env.button
    THEN [path |-> "no_button", began |-> TRUE, close_called |-> FALSE,
          open |-> open]
    ELSE IF ~env.click
    THEN [path |-> "click_failed", began |-> TRUE, close_called |-> FALSE,
          open |-> open \/ env.opens]
    ELSE IF env.images_raise
    THEN [path |-> "exception", began |-> TRUE, close_called |-> TRUE,
          open |-> _close_modal(env, open \/ env.opens)]
    ELSE [path |-> "images", began |-> TRUE, close_called |-> TRUE,
          open |-> _close_modal(env, open \/ env.opens)]

ExtractMultipleVersions ==
    /\ pc = "modal"
    /\ Len(mv_log) < MaxModalCalls
    /\ \E env \in ModalEnvs :
         LET r == _extract_multiple_versions(selectors, env, overlay_open)
         IN  /\ overlay_open' = r.open
             /\ mv_log' = Append(mv_log, [path |-> r.path, began |-> r.began,
                                          close_called |-> r.close_called,
                                          open_before |-> overlay_open,
                                          open_after |-> r.open])
    /\ UNCHANGED << fnVars, runVars, pc, page, interrupted, sig, appVars, scraperVars, histVars >>

InitModal ==
    /\ pc = "modal"
    /\ selectors \in SelectorTables
    /\ args = [page_id |-> "", max_ads |-> 0]
    /\ page = << >>
    /\ interrupted = FALSE
    /\ exit_code = -1
    /\ ads_scraped = 0 /\ ads_saved = 0
    /\ summary = NoSummary
    /\ csv = << >>
    /\ scraper = "FacebookScraper" /\ storage = None
    /\ is_initialized = TRUE /\ driver = "Chrome"
    /\ total_scraped = 0 /\ errors = << >>
    /\ processed_library_ids = {}
    /\ ad_cards = << >> /\ idx = 0
    /\ gen = "none"
    /\ yielded = << >> /\ sink = << >>
    /\ outcome = << >> /\ steps = << >>
    /\ nav = [attempts |-> 0, result |-> "none"]
    /\ scrolls = 0 /\ located = 0
    /\ sig = [seen |-> FALSE, card |-> 0]
    /\ overlay_open = FALSE /\ mv_log = << >>
    /\ call = NoCall
    /\ report = NoReport

NextModal == ExtractMultipleVersions

SpecModal == InitModal /\ [][NextModal]_vars

(***************************************************************************)
(* The parsers, the image scorer and the batch save applied on their own:  *)
(* SpecFn applies one function to one input drawn from a bounded set and   *)
(* records the call.                                                       *)
(***************************************************************************)
MaxIdTokens == 4

IdTokens == { IdPatterns[k] : k \in 1..Len(IdPatterns) } \cup DigitRuns \cup { "Sponsored" }

IdTexts == SeqsUpTo(IdTokens, MaxIdTokens)

ExtractLibraryId ==
    /\ pc = "fn"
    /\ \E text \in IdTexts :
         call' = [fn |-> "_extract_library_id_simple", arg |-> text,
                  result |-> _extract_library_id_simple(text)]
    /\ pc' = "fn_done"
    /\ UNCHANGED << runVars, mvVars, page, interrupted, sig, appVars, scraperVars, histVars >>

InitFn ==
    /\ pc = "fn"
    /\ selectors = FacebookSelectors
    /\ args = [page_id |-> "", max_ads |-> 0]
    /\ page = << >>
    /\ interrupted = FALSE
    /\ exit_code = -1
    /\ ads_scraped = 0 /\ ads_saved = 0
    /\ summary = NoSummary
    /\ csv = << >>
    /\ scraper = "FacebookScraper" /\ storage = "CsvStorage"
    /\ is_initialized = TRUE /\ driver = "Chrome"
    /\ total_scraped = 0 /\ errors = << >>
    /\ processed_library_ids = {}
    /\ ad_cards = << >> /\ idx = 0
    /\ gen = "none"
    /\ yielded = << >> /\ sink = << >>
    /\ outcome = << >> /\ steps = << >>
    /\ nav = [attempts |-> 0, result |-> "none"]
    /\ scrolls = 0 /\ located = 0
    /\ sig = [seen |-> FALSE, card |-> 0]
    /\ overlay_open = FALSE /\ mv_log = << >>
    /\ call = NoCall
    /\ report = NoReport

MaxDateTokens == 2

DateTokens == DOMAIN DateLexicon \cup DateLabels \cup { "Sponsored" }

DateTexts == SeqsUpTo(DateTokens, MaxDateTokens)

ExtractStartDate ==
    /\ pc = "fn"
    /\ \E text \in DateTexts :
         call' = [fn |-> "_extract_start_date_simple", arg |-> text,
                  result |-> _extract_start_date_simple(text)]
    /\ pc' = "fn_done"
    /\ UNCHANGED << runVars, mvVars, page, interrupted, sig, appVars, scraperVars, histVars >>

MaxPlatformTokens == 3

PlatformTokens ==
    { "Facebook", "facebook", "FACEBOOK", "Instagram", "instagram", "INSTAGRAM",
      "instaGram", "KO_PLATFORM", "Sponsored" }

PlatformTexts == SeqsUpTo(PlatformTokens, MaxPlatformTokens)

ExtractPlatforms ==
    /\ pc = "fn"
    /\ \E text \in PlatformTexts :
         call' = [fn |-> "_extract_platforms_simple", arg |-> text,
                  result |-> _extract_platforms_simple(text)]
    /\ pc' = "fn_done"
    /\ UNCHANGED << runVars, mvVars, page, interrupted, sig, appVars, scraperVars, histVars >>

MaxImages == 3

\* The images given to the scorer: rejected ones, one for each continue, and
\* scored ones of several sizes, two of them with the same score.
Images ==
    { ContentImage(src, 800, 500) :
        src \in { "", "data:image/gif;base64,R0", "https://example.com/x.jpg",
                  "https://scontent/t/profile_picture.jpg", "https://scontent/P60x60/c.jpg" } }
    \cup { [ContentImage("https://scontent/a2.jpg", 800, 500) EXCEPT !.parent = par] :
             par \in { "profile", "raises" } }
    \cup { ContentImage("https://scontent/a.jpg", d[1], d[2]) :
             d \in { << 0, 0 >>, << 60, 60 >>, << 100, 100 >>, << 100, 120 >>,
                     << 250, 250 >>, << 800, 500 >> } }
    \cup { [ContentImage("https://scontent/a.jpg", 60, 60) EXCEPT
              !.nw = 800, !.nh = 500, !.script_ok = ok] : ok \in BOOLEAN }
    \cup { ContentImage("https://fbcdn/b.jpg", d[1], d[2]) :
             d \in { << 100, 100 >>, << 500, 800 >>, << 800, 500 >> } }
    \cup { [ContentImage("https://fbcdn/b.jpg", 800, 500) EXCEPT !.y = 0],
            ContentImage("https://scontent/t/profile_picture.jpg", 60, 60) }

ImageLists == SeqsUpTo(Images, MaxImages)

ExtractThumbnail ==
    /\ pc = "fn"
    /\ \E all_imgs \in ImageLists :
         call' = [fn |-> "_extract_thumbnail_url", arg |-> all_imgs,
                  result |-> _extract_thumbnail_url(
                                [text |-> << >>, stale |-> FALSE, img_fault |-> FALSE,
                                 imgs |-> all_imgs, link |-> ""])]
    /\ pc' = "fn_done"
    /\ UNCHANGED << runVars, mvVars, page, interrupted, sig, appVars, scraperVars, histVars >>

MaxBatch == 2

\* Records as _scrape_ad_card builds them: complete ones, and ones with an
\* empty start_date, thumbnail_url or learn_more_url.
AdRecords ==
    LET full == [platform |-> "facebook", library_id |-> "123456",
                 start_date |-> "2025-07-01", platforms |-> << "Facebook" >>,
                 thumbnail_url |-> "https://scontent/a.jpg",
                 learn_more_url |-> "https://l.facebook.com/a"]
    IN  { full, [full EXCEPT !.library_id = "777"], [full EXCEPT !.start_date = ""],
          [full EXCEPT !.thumbnail_url = ""], [full EXCEPT !.learn_more_url = ""] }

Batches == SeqsUpTo(AdRecords, MaxBatch)

SaveBatchData ==
    /\ pc = "fn"
    /\ \E ads_data \in Batches, io_ok \in BOOLEAN :
         LET r == save_batch_data(ads_data, csv, io_ok)
         IN  /\ csv' = r.rows
             /\ call' = [fn |-> "save_batch_data", arg |-> ads_data, result |-> r.ok]
    /\ pc' = "fn_done"
    /\ UNCHANGED << runVars, mvVars, page, interrupted, sig, args, exit_code, ads_scraped, ads_saved,
                    summary, scraper, storage, scraperVars, histVars >>

NextFn ==
    \/ ExtractLibraryId
    \/ ExtractStartDate
    \/ ExtractPlatforms
    \/ ExtractThumbnail
    \/ SaveBatchData

SpecFn == InitFn /\ [][NextFn]_vars

(***************************************************************************)
(* The card locator on its own: one call of _find_ad_cards or of           *)
(* _is_complete_ad_card per behaviour.                                     *)
(***************************************************************************)

\* The three kinds of element the walk meets: one the predicate accepts, one
\* it rejects, one whose element.text raises.
NodeKinds ==
    { [text |-> << "Library ID:", "123456", "Facebook" >>, stale |-> FALSE],
      [text |-> << "Library ID:", "123456" >>, stale |-> FALSE],
      [text |-> << >>, stale |-> TRUE] }

RECURSIVE Ascending(_)
Ascending(S) ==
    IF S = {} THEN << >>
    ELSE LET m == CHOOSE x \in S : \A y \in S : x <= y
         IN  << m >> \o Ascending(S \ { m })

\* html, body and a chain of Levels + 1 nested divs below body (elements
\* 3..Levels + 3, each the child of the one before); the divs in M are the
\* markers.  The deepest div has body as its sixth ancestor.
ChainDocument(kind, M) ==
    [nodes |-> [e \in 1..(Levels + 3) |->
                  IF e = 1
                  THEN [tag |-> "html", parent |-> 0,
                        text |-> << "Library ID:", "123456", "Facebook" >>, stale |-> FALSE]
                  ELSE [tag |-> IF e = 2 THEN "body" ELSE "div", parent |-> e - 1,
                        text |-> kind[e].text, stale |-> kind[e].stale]],
     markers |-> Ascending(M)]

\* A card (3) that holds a marker (4), a nested card (5) with its marker (6),
\* and a second marker of its own (7).
NestedDocument ==
    LET card == [tag |-> "div", parent |-> 2, text |-> << "Library ID:", "123456", "Facebook" >>, stale |-> FALSE]
        plain == [tag |-> "div", parent |-> 2, text |-> << "Library ID:", "123456" >>, stale |-> FALSE]
    IN  [nodes |-> << [tag |-> "html", parent |-> 0, text |-> << >>, stale |-> FALSE],
                      [tag |-> "body", parent |-> 1, text |-> << >>, stale |-> FALSE],
                      [card EXCEPT !.parent = 2], [plain EXCEPT !.parent = 3],
                      [card EXCEPT !.parent = 3], [plain EXCEPT !.parent = 5],
                      [plain EXCEPT !.parent = 3] >>,
         markers |-> << 4, 6, 7 >>]

MaxMarkers == 2

MarkerSets == { M \in SUBSET (3..(Levels + 3)) : Cardinality(M) <= MaxMarkers }

Documents == { NestedDocument } \cup { Document(cards) : cards \in Pages }

\* One call of _find_ad_cards, with a selector table that defines the marker
\* XPath.
FindAdCardsCall ==
    /\ pc = "fn"
    /\ \/ \E document \in Documents :
            call' = [fn |-> "_find_ad_cards", arg |-> document,
                     result |-> _find_ad_cards(FacebookSelectors \cup ScraperSelectorNames,
                                               document)]
       \/ \E kind \in [2..(Levels + 3) -> NodeKinds], M \in MarkerSets :
            call' = [fn |-> "_find_ad_cards", arg |-> ChainDocument(kind, M),
                     result |-> _find_ad_cards(FacebookSelectors \cup ScraperSelectorNames,
                                               ChainDocument(kind, M))]
    /\ pc' = "fn_done"
    /\ UNCHANGED << runVars, mvVars, page, interrupted, sig, appVars, scraperVars, histVars >>

MaxCardTokens == 3

CardTokens ==
    { "Library ID:", "KO_LIBRARY_ID:", "123456", "Started running on Jul 1, 2025",
      "2024. 1. 5.", "Started running on Jul 1, 2023", "Facebook", "Instagram",
      "KO_PLATFORM", "Sponsored" }

Elements ==
    { [tag |-> "div", parent |-> 2, text |-> text, stale |-> stale] :
        text \in SeqsUpTo(CardTokens, MaxCardTokens), stale \in BOOLEAN }

\* One call of _is_complete_ad_card.
IsCompleteAdCard ==
    /\ pc = "fn"
    /\ \E element \in Elements :
         call' = [fn |-> "_is_complete_ad_card", arg |-> element,
                  result |-> _is_complete_ad_card(element)]
    /\ pc' = "fn_done"
    /\ UNCHANGED << runVars, mvVars, page, interrupted, sig, appVars, scraperVars, histVars >>

NextLocator ==
    \/ FindAdCardsCall
    \/ IsCompleteAdCard

SpecLocator == InitFn /\ [][NextLocator]_vars

(***************************************************************************)
(* scroll_to_bottom (base.py lines 155-189), one loop iteration per step.  *)
(* call holds the frame of the call: the bound in force, scroll_count,     *)
(* last_height, and as history the number of scrollTo scripts executed     *)
(* (performed), whether some scroll was followed by a height that was not  *)
(* greater than the one before it (stalled), and whether a further scroll  *)
(* was executed after such a one (scrolled_on).  Every read of             *)
(* document.body.scrollHeight may return any height: the page may grow,    *)
(* stay as it is or shrink.                                                *)
(***************************************************************************)

\* config.py line 23.
MAX_SCROLL_ATTEMPTS == 50

MaxScrollsArg == 2

MaxHeight == 3

Heights == 1..MaxHeight

\* The bound in force after lines 165-166: the default, when max_scrolls is
\* None, or the integer given.
ScrollArgs == { MAX_SCROLL_ATTEMPTS } \cup (0..MaxScrollsArg)

\* Lines 165-169.  result is -1 until the call returns.
ScrollEnter ==
    /\ pc = "fn"
    /\ \E max_scrolls \in ScrollArgs, height \in Heights :
         call' = [fn |-> "scroll_to_bottom",
                  max_scrolls |-> max_scrolls,
                  scroll_count |-> 0, last_height |-> height,
                  performed |-> 0, stalled |-> FALSE, scrolled_on |-> FALSE,
                  result |-> -1]
    /\ pc' = "scroll_loop"
    /\ UNCHANGED << runVars, mvVars, page, interrupted, sig, appVars, scraperVars, histVars >>

\* Line 180.
ScrollBreaks(new_height, last_height) == new_height = last_height

\* Lines 171-186: one iteration of the while loop.
ScrollStep ==
    /\ pc = "scroll_loop"
    /\ call.scroll_count < call.max_scrolls
    /\ \E new_height \in Heights :
         /\ call' = [call EXCEPT
                        !.performed = @ + 1,
                        !.scrolled_on = @ \/ call.stalled,
                        !.stalled = @ \/ new_height <= call.last_height,
                        !.last_height = IF ScrollBreaks(new_height, call.last_height)
                                        THEN @ ELSE new_height,
                        !.scroll_count = IF ScrollBreaks(new_height, call.last_height)
                                         THEN @ ELSE @ + 1]
         /\ pc' = IF ScrollBreaks(new_height, call.last_height)
                  THEN "scroll_return" ELSE "scroll_loop"
    /\ UNCHANGED << runVars, mvVars, page, interrupted, sig, appVars, scraperVars, histVars >>

\* Line 171: the loop condition fails.
ScrollLoopEnds ==
    /\ pc = "scroll_loop"
    /\ ~(call.scroll_count < call.max_scrolls)
    /\ pc' = "scroll_return"
    /\ UNCHANGED << fnVars, runVars, mvVars, page, interrupted, sig, appVars, scraperVars, histVars >>

\* Line 189.
ScrollReturn ==
    /\ pc = "scroll_return"
    /\ call' = [call EXCEPT !.result = call.scroll_count]
    /\ pc' = "fn_done"
    /\ UNCHANGED << runVars, mvVars, page, interrupted, sig, appVars, scraperVars, histVars >>

NextScroll ==
    \/ ScrollEnter
    \/ ScrollStep
    \/ ScrollLoopEnds
    \/ ScrollReturn

SpecScroll == InitFn /\ [][NextScroll]_vars

\* The call runs on a thread nothing else holds up.
SpecScrollFair == SpecScroll /\ WF_vars(NextScroll)

(***************************************************************************)
(* The life of one FacebookScraper: after construction any sequence of     *)
(* scrape_ads calls (each consumed to its end, one card per step), close() *)
(* and initialize().  call.ops lists the operations begun, call.raised     *)
(* tells whether the last one raised and call.skipped how many cards the   *)
(* last scrape_ads call has passed over as duplicates; yielded collects    *)
(* the records of all the calls.                                           *)
(***************************************************************************)

MaxCalls == 3

MaxLifeCards == 1

LifePages == SeqsUpTo(Cards, MaxLifeCards)

InitOutcomes == { "none", "scraper", "browser" }

\* Variant: initialization starts the scraper's bookkeeping anew.
initialize_anew(fail, self) ==
    [driver |-> IF fail = "scraper" THEN self.driver ELSE "Chrome",
     is_initialized |-> IF fail = "none" THEN TRUE ELSE self.is_initialized,
     processed_library_ids |-> {}, total_scraped |-> 0, errors |-> << >>,
     raised |-> fail # "none"]

\* BaseScraper.initialize (base.py lines 59-96) on the fields of the
\* instance.  fail names what raised: nothing, webdriver.Chrome (line 82,
\* nothing is assigned) or a later driver call (lines 83-89, the new driver
\* is assigned, is_initialized is not).  The handler re-raises as
\* RuntimeError.  No other field is assigned.
initialize(fail, self) ==
    [driver |-> IF fail = "scraper" THEN self.driver ELSE "Chrome",
     is_initialized |-> IF fail = "none" THEN TRUE ELSE self.is_initialized,
     processed_library_ids |-> self.processed_library_ids,
     total_scraped |-> self.total_scraped, errors |-> self.errors,
     raised |-> fail # "none"]

\* The fields of the instance; raised is set by the operation applied.
Self ==
    [driver |-> driver, is_initialized |-> is_initialized,
     processed_library_ids |-> processed_library_ids,
     total_scraped |-> total_scraped, errors |-> errors, raised |-> FALSE]

\* The state after FacebookScraper() (lines 35-48, base.py lines 34-57).
InitLife ==
    /\ pc = "life"
    /\ selectors \in SelectorTables
    /\ args = [page_id |-> "", max_ads |-> 0]
    /\ page = << >>
    /\ interrupted = FALSE
    /\ exit_code = -1
    /\ ads_scraped = 0 /\ ads_saved = 0
    /\ summary = NoSummary
    /\ csv = << >>
    /\ scraper = "FacebookScraper" /\ storage = None
    /\ is_initialized = FALSE /\ driver = None
    /\ total_scraped = 0 /\ errors = << >>
    /\ processed_library_ids = {}
    /\ ad_cards = << >> /\ idx = 0
    /\ gen = "none"
    /\ yielded = << >> /\ sink = << >>
    /\ outcome = << >> /\ steps = << >>
    /\ nav = [attempts |-> 0, result |-> "none"]
    /\ scrolls = 0 /\ located = 0
    /\ sig = [seen |-> FALSE, card |-> 0]
    /\ overlay_open = FALSE /\ mv_log = << >>
    /\ call = [fn |-> "none", ops |-> << >>, raised |-> FALSE, skipped |-> 0]
    /\ report = NoReport

\* scrape_ads lines 60-82: initialization when needed, the URL, the
\* navigation, the scroll and the location of the cards.  What initialize
\* would do matters only to a scraper that is not initialized, and the cards
\* of the page only when the page is reached.
LifeScrapeAds ==
    /\ pc = "life"
    /\ Len(call.ops) < MaxCalls
    /\ \E page_id \in PageIds, nav_ok \in BOOLEAN,
          fail \in (IF is_initialized THEN { "none" } ELSE InitOutcomes) :
         \E cards \in (IF page_id = "" \/ ~nav_ok \/ fail # "none"
                       THEN { << >> } ELSE LifePages) :
           LET ini == IF is_initialized THEN Self ELSE initialize(fail, Self)
               went == navigate_to_page(nav_ok, ini.errors)
               found == _find_ad_cards(selectors, Document(cards))
               reached == /\ ~ini.raised
                          /\ ~_build_search_url([page_id |-> page_id]).raised
                          /\ went.result
           IN  /\ driver' = ini.driver
               /\ is_initialized' = ini.is_initialized
               /\ processed_library_ids' = ini.processed_library_ids
               /\ total_scraped' = ini.total_scraped
               /\ errors' = IF ~ini.raised /\ page_id # "" THEN went.errors ELSE ini.errors
               /\ ad_cards' = IF reached /\ ~found.raised
                              THEN [k \in 1..Len(found.cards) |-> cards[found.cards[k] - 2]]
                              ELSE << >>
               /\ idx' = IF reached /\ ~found.raised THEN 1 ELSE 0
               /\ call' = [fn |-> "scrape_ads", ops |-> Append(call.ops, "scrape_ads"),
                           raised |-> \/ ini.raised
                                      \/ page_id = ""
                                      \/ (went.result /\ found.raised),
                           skipped |-> 0]
               /\ pc' = IF reached /\ ~found.raised THEN "life_loop" ELSE "life"
    /\ UNCHANGED << runVars, mvVars, page, interrupted, sig, appVars, selectors,
                    gen, histVars >>

\* Lines 85-100 for one card; the consumer asks for the next record at once.
LifeCard ==
    /\ pc = "life_loop"
    /\ idx <= Len(ad_cards)
    /\ LET res == _scrape_ad_card(selectors, ad_cards[idx], idx - 1)
           out == CardOutcome(res, processed_library_ids)
       IN  /\ errors' = IF res.raised THEN Append(errors, CardError(idx - 1)) ELSE errors
           /\ processed_library_ids' =
                 IF out = "accepted"
                 THEN processed_library_ids \cup { res.ad_data.library_id }
                 ELSE processed_library_ids
           /\ total_scraped' = IF out = "accepted" THEN total_scraped + 1 ELSE total_scraped
           /\ yielded' = IF out = "accepted"
                         THEN Append(yielded, [card |-> idx - 1, ad_data |-> res.ad_data])
                         ELSE yielded
           /\ call' = [call EXCEPT !.skipped = IF out = "duplicate" THEN @ + 1 ELSE @]
           /\ idx' = NextIndex(idx, Len(ad_cards), out)
    /\ UNCHANGED << pc, runVars, mvVars, page, interrupted, sig, appVars, selectors,
                    is_initialized, driver, ad_cards, gen,
                    sink, outcome, steps, nav, scrolls, located >>

\* The loop is exhausted and the generator ends; its locals are gone.
LifeExhausted ==
    /\ pc = "life_loop"
    /\ idx > Len(ad_cards)
    /\ ad_cards' = << >>
    /\ idx' = 0
    /\ pc' = "life"
    /\ UNCHANGED << fnVars, runVars, mvVars, page, interrupted, sig, appVars, selectors,
                    is_initialized, driver, total_scraped, errors, processed_library_ids,
                    gen, histVars >>

LifeClose ==
    /\ pc = "life"
    /\ Len(call.ops) < MaxCalls
    /\ driver' = close(driver).driver
    /\ is_initialized' = close(driver).is_initialized
    /\ call' = [fn |-> "close", ops |-> Append(call.ops, "close"),
                raised |-> FALSE, skipped |-> 0]
    /\ UNCHANGED << pc, runVars, mvVars, page, interrupted, sig, appVars, selectors,
                    total_scraped, errors, processed_library_ids,
                    ad_cards, idx, gen, histVars >>

LifeInitialize ==
    /\ pc = "life"
    /\ Len(call.ops) < MaxCalls
    /\ \E fail \in InitOutcomes :
         LET ini == initialize(fail, Self)
         IN  /\ driver' = ini.driver
             /\ is_initialized' = ini.is_initialized
             /\ processed_library_ids' = ini.processed_library_ids
             /\ total_scraped' = ini.total_scraped
             /\ errors' = ini.errors
             /\ call' = [fn |-> "initialize", ops |-> Append(call.ops, "initialize"),
                         raised |-> ini.raised, skipped |-> 0]
    /\ UNCHANGED << pc, runVars, mvVars, page, interrupted, sig, appVars, selectors,
                    ad_cards, idx, gen, histVars >>

NextLife ==
    \/ LifeScrapeAds
    \/ LifeCard
    \/ LifeExhausted
    \/ LifeClose
    \/ LifeInitialize

SpecLife == InitLife /\ [][NextLife]_vars

(***************************************************************************)
(* Properties                                                              *)
(***************************************************************************)
\* The identifier a card's text parses to ("" when the text cannot be read).
ParsedId(card) == IF card.stale THEN "" ELSE _extract_library_id_simple(card.text)

LaterSteps == { "start_date", "platforms", "thumbnail_url", "learn_more_url" }

\* The generator is inside its card loop, working on card idx.
InCard == pc = "gen_card"

LoopEntered == idx >= 1

Located == 1..Len(ad_cards)

\* C1: no two yielded records carry the same library_id, and the step that
\* processes a card whose parsed identifier is already in
\* processed_library_ids yields nothing and changes neither total_scraped, the
\* seen-set nor the error list.
C1_NoDuplicateYield ==
    /\ [](\A i, j \in 1..Len(yielded) :
            i # j => yielded[i].ad_data.library_id # yielded[j].ad_data.library_id)
    /\ [][(InCard /\ ParsedId(ad_cards[idx]) \in processed_library_ids)
            => /\ yielded' = yielded
               /\ total_scraped' = total_scraped
               /\ errors' = errors
               /\ processed_library_ids' = processed_library_ids
               /\ pc' \in { "gen_card", "gen_loop" }]_vars

C1_Witness ==
    /\ \E i \in Located : outcome[i] = { "duplicate" }
    /\ Len(yielded) = 1
    /\ total_scraped = 1

\* C2: every yielded record has a non-empty library_id; a card whose text is
\* empty or parses to no identifier has none of the date, platform, thumbnail
\* or link steps run on it, and the step that processes it leaves the seen-set,
\* total_scraped and the error list unchanged and yields nothing.
C2_NonEmptyId ==
    /\ [](/\ \A k \in 1..Len(yielded) : yielded[k].ad_data.library_id # ""
          /\ \A i \in Located :
               (~ad_cards[i].stale /\ ParsedId(ad_cards[i]) = "")
                  => /\ steps[i] \cap LaterSteps = {}
                     /\ outcome[i] \subseteq { "rejected" })
    /\ [][(InCard /\ ~ad_cards[idx].stale /\ ParsedId(ad_cards[idx]) = "")
            => /\ processed_library_ids' = processed_library_ids
               /\ total_scraped' = total_scraped
               /\ errors' = errors
               /\ yielded' = yielded]_vars

C2_Witness ==
    /\ \E i \in Located : ad_cards[i].text = << >> /\ outcome[i] = { "rejected" }
    /\ \E i \in Located : ad_cards[i].text # << >> /\ outcome[i] = { "rejected" }
    /\ Len(yielded) >= 1

\* C3: a card whose extraction raised does not end the run: once the loop is
\* entered the generator never ends by an exception, it stops early only when
\* the consumer breaks, every card it passed has exactly one outcome, at
\* exhaustion every located card has exactly one, and run returns 0 with its
\* summary.
C3_FaultIsolation ==
    /\ LoopEntered => gen # "raised"
    /\ \A i \in Located : Cardinality(outcome[i]) <= 1
    /\ \A i \in Located : (LoopEntered /\ i < idx) => Cardinality(outcome[i]) = 1
    /\ (LoopEntered /\ gen = "exhausted") => \A i \in Located : Cardinality(outcome[i]) = 1
    /\ gen = "closed" => (interrupted \/ (args.max_ads # 0 /\ ads_saved >= args.max_ads))
    /\ (LoopEntered /\ pc = "exit") => (exit_code = 0 /\ summary.generated)

C3_Witness ==
    /\ pc = "exit"
    /\ gen = "exhausted"
    /\ \E i \in Located :
         /\ i < Len(ad_cards)
         /\ outcome[i] = { "faulted" }
         /\ outcome[i + 1] = { "accepted" }
    /\ \E i \in Located : ad_cards[i].img_fault /\ outcome[i] = { "accepted" }

\* C4: every card whose extraction raised has an entry with its index in the
\* error list, and the summary's error count is the number of such cards.
C4_FaultsRecorded ==
    /\ \A i \in Located :
         "faulted" \in outcome[i] => \E k \in 1..Len(errors) : errors[k] = CardError(i - 1)
    /\ (summary.generated /\ nav.result = "ok")
         => summary.errors = Cardinality({ i \in Located : "faulted" \in outcome[i] })

\* C5: a run whose navigation succeeded and that received no signal returns 0
\* and generates its summary.
C5_RunCompletes ==
    (pc = "exit" /\ nav.result = "ok" /\ ~sig.seen) => (exit_code = 0 /\ summary.generated)

\* C6: navigation is attempted at most once; when it failed nothing is
\* scrolled, located, extracted or yielded, the error list holds exactly the
\* navigation error, and the summary run generates reports one error.
C6_NavigationFailure ==
    /\ nav.attempts <= 1
    /\ nav.result = "failed" =>
         /\ nav.attempts = 1
         /\ scrolls = 0 /\ located = 0
         /\ ad_cards = << >> /\ outcome = << >> /\ steps = << >>
         /\ yielded = << >> /\ sink = << >> /\ total_scraped = 0
         /\ errors = << NavigationError >>
         /\ pc \in { "archive", "summary", "cleanup", "exit" }
         /\ pc = "exit" => (summary.generated /\ summary.errors = 1)

C6_Witness == pc = "exit" /\ nav.result = "failed" /\ summary.errors = 1

\* C7: when the loop has run over cards none of which raised, total_scraped and
\* the size of the seen-set equal the number of distinct non-empty identifiers
\* of the cards, and the error list is empty.
DistinctIds(cards) == { ParsedId(cards[i]) : i \in 1..Len(cards) } \ { "" }

NoneRaised(cards) == \A i \in 1..Len(cards) : ~cards[i].stale /\ ~cards[i].img_fault

C7_Totals ==
    (LoopEntered /\ gen = "exhausted" /\ NoneRaised(ad_cards))
       => /\ total_scraped = Cardinality(DistinctIds(ad_cards))
          /\ Cardinality(processed_library_ids) = Cardinality(DistinctIds(ad_cards))
          /\ processed_library_ids = DistinctIds(ad_cards)
          /\ errors = << >>
          /\ (summary.generated => (summary.total_scraped = total_scraped
                                     /\ summary.errors = 0))

C7_Witness ==
    /\ pc = "exit" /\ gen = "exhausted" /\ NoneRaised(ad_cards)
    /\ Len(ad_cards) = 3 /\ ~interrupted
    /\ \E i, j, k \in Located :
         outcome[i] = { "accepted" } /\ outcome[j] = { "duplicate" }
            /\ outcome[k] = { "rejected" }
    /\ summary.generated /\ summary.total_scraped = 1 /\ summary.errors = 0
    /\ Cardinality(processed_library_ids) = 1

\* C8: when the flag was set while card i was being processed, no card after
\* i is extracted.
C8_StopAfterCurrentCard ==
    sig.card > 0 => \A j \in Located : j > sig.card => steps[j] = {}

C10_CloseOnEveryExit ==
    \A k \in 1..Len(mv_log) : mv_log[k].began => mv_log[k].close_called

\* The digit runs that follow a label of the set labels in the text.
LabelledRuns(text, labels) ==
    { text[p + 1] : p \in { q \in 1..(Len(text) - 1) :
                               text[q] \in labels /\ text[q + 1] \in DigitRuns } }

\* The identifier labels: Korean and English, each spelled with and without
\* the space before "ID:" (lines 286-289).
AllLabels == { IdPatterns[k] : k \in 1..Len(IdPatterns) }

\* The first label, in the order of the pattern list, that some digits follow.
FirstLabel(text) ==
    CHOOSE k \in 1..Len(IdPatterns) :
       /\ LabelledRuns(text, { IdPatterns[k] }) # {}
       /\ \A j \in 1..(k - 1) : LabelledRuns(text, { IdPatterns[j] }) = {}

\* The leftmost place where the label is followed by digits.
FirstPlace(text, label) ==
    CHOOSE p \in 1..(Len(text) - 1) :
       /\ text[p] = label /\ text[p + 1] \in DigitRuns
       /\ \A q \in 1..(p - 1) : ~(text[q] = label /\ text[q + 1] \in DigitRuns)

\* C11: for a text in which an identifier label is followed by digits the
\* result is exactly the digit run after a label (after the leftmost occurrence
\* of the first label of the pattern list that digits follow), and for a text
\* in which no label is followed by digits it is the empty string.
C11_IdParser ==
    call.fn = "_extract_library_id_simple" =>
       LET text == call.arg
       IN  IF LabelledRuns(text, AllLabels) = {}
           THEN call.result = ""
           ELSE /\ call.result = text[FirstPlace(text, IdPatterns[FirstLabel(text)]) + 1]
                /\ call.result \in DigitRuns

C11_Witness ==
    /\ call.fn = "_extract_library_id_simple"
    /\ call.arg = << "Library ID:", "123456", "KO_LIBRARY_ID:", "777" >>
    /\ call.result = "777"

\* The documented inputs, as they are spelled here, with the documented
\* results.
DocumentedDates ==
    << [input |-> "2025. 6. 26.KO_E KO_GEJAE KO_SIJAKHAM", output |-> "2025-06-26"],
       [input |-> "2025KO_NYEON 6KO_WOL 26KO_IL", output |-> "2025-06-26"],
       [input |-> "Started running on Jul 1, 2025", output |-> "2025-07-01"],
       [input |-> "Started running on 1 Jul 2025", output |-> "2025-07-01"],
       [input |-> "2025KO_NYEON 7KO_WOL", output |-> "2025-07-01"] >>

\* Some rule has a match in the text: a date pattern in a phrase, or a generic
\* label with a line after it.
SomeRuleMatches(text) ==
    \/ \E p \in 1..Len(text) :
          Lex(text[p]).shape \in { "dot_posted", "dot_full", "dot_tight", "dot_month",
                                   "ko_full", "ko_month", "en_mdy", "en_dmy" }
    \/ \E p \in 1..(Len(text) - 1) : text[p] \in DateLabels

\* C12: each of the five documented inputs gives its documented result, and a
\* text in which no rule has a match gives the empty string.
C12_DocumentedDates ==
    call.fn = "_extract_start_date_simple" =>
       /\ \A k \in 1..Len(DocumentedDates) :
             call.arg = << DocumentedDates[k].input >>
                => call.result = DocumentedDates[k].output
       /\ ~SomeRuleMatches(call.arg) => call.result = ""

C12_Witness ==
    /\ call.fn = "_extract_start_date_simple"
    /\ call.arg = << "Started running on 1 Jul 2025" >>
    /\ call.result = "2025-07-01"

\* The YYYY-MM-DD strings with month in 1..12 and day in 1..31.
CalendarStrings ==
    { ToString(y) \o "-" \o (IF m < 10 THEN "0" ELSE "") \o ToString(m)
         \o "-" \o (IF d < 10 THEN "0" ELSE "") \o ToString(d) :
      y \in Years, m \in 1..12, d \in 1..31 }

\* C13: every non-empty result of the date parser is a YYYY-MM-DD string
\* with month in 1..12 and day in 1..31: a match with a number out of range
\* counts as no match.
C13_OutOfRangeIsNoMatch ==
    (call.fn = "_extract_start_date_simple" /\ call.result # "")
       => call.result \in CalendarStrings

\* C19: for a text in which only a generic label rule and the month-only rule
\* have a match, and the line after the label parses as a date, the result is
\* that date.
C19_GenericBeforeMonthOnly ==
    (/\ call.fn = "_extract_start_date_simple"
     /\ TryDayPatterns(call.arg, 1) = ""
     /\ TryEnglishPatterns(call.arg, 1) = ""
     /\ TryGenericPatterns(call.arg, 1) # ""
     /\ TryMonthOnlyPatterns(call.arg, 1) # "")
       => call.result = TryGenericPatterns(call.arg, 1)

\* C14: the platform list is never empty and has no entry twice; when the
\* text holds both "Facebook" and "Instagram" the list has "Facebook" before
\* "Instagram"; when the text holds no platform token the list is
\* << "Facebook" >>.
C14_PlatformList ==
    call.fn = "_extract_platforms_simple" =>
       LET text == call.arg
           platforms == call.result
       IN  /\ platforms # << >>
           /\ \A i, j \in 1..Len(platforms) : i # j => platforms[i] # platforms[j]
           /\ (Contains(text, "Facebook") /\ Contains(text, "Instagram"))
                 => \E i, j \in 1..Len(platforms) :
                       i < j /\ platforms[i] = "Facebook" /\ platforms[j] = "Instagram"
           /\ (\A p \in 1..Len(text) : text[p] = "Sponsored") => platforms = << "Facebook" >>

\* C20: a text that holds a platform name in any letter case has the
\* canonical name of that platform in the list.
C20_CaseInsensitive ==
    call.fn = "_extract_platforms_simple" =>
       /\ (\E p \in 1..Len(call.arg) : Lower(call.arg[p]) = "facebook")
             => \E i \in 1..Len(call.result) : call.result[i] = "Facebook"
       /\ (\E p \in 1..Len(call.arg) : Lower(call.arg[p]) = "instagram")
             => \E i \in 1..Len(call.result) : call.result[i] = "Instagram"

\* total = width*height + 10000*aspect_bonus + 20000*size_bonus +
\* 5000*position_bonus, with aspect_bonus = max(w,h)/min(w,h) when that ratio
\* exceeds 1.2 and 0 otherwise, as the pair of the sum without the ratio and
\* the ratio's numerator and denominator.
StatedTotal(img) ==
    LET w == Width(img)
        h == Height(img)
        big == IF w >= h THEN w ELSE h
        small == IF w >= h THEN h ELSE w
        bonus == w > 0 /\ h > 0 /\ 10 * big > 12 * small
    IN  [base |-> w * h + (IF w * h > 50000 THEN 20000 ELSE 0)
                    + (IF img.y > 50 THEN 5000 ELSE 0),
         num |-> IF bonus THEN big ELSE 0,
         den |-> IF bonus THEN small ELSE 1]

\* total of a exceeds total of b: base_a + 10000 num_a / den_a against the
\* same of b, multiplied out by the two denominators.
StatedGreater(a, b) ==
    LET qa == (10000 * a.num) \div a.den
        ra == (10000 * a.num) % a.den
        qb == (10000 * b.num) \div b.den
        rb == (10000 * b.num) % b.den
    IN  \/ a.base + qa > b.base + qb
        \/ a.base + qa = b.base + qb /\ ra * b.den > rb * a.den

\* C15: the result is the url of a surviving image whose total no surviving
\* image exceeds and no earlier surviving image equals, and it is empty
\* exactly when no image survives.
C15_HighestTotalFirstWins ==
    call.fn = "_extract_thumbnail_url" =>
       LET imgs == call.arg
           surviving == { i \in 1..Len(imgs) : Survives(imgs[i]) }
       IN  /\ (call.result = "") <=> (surviving = {})
           /\ surviving # {} =>
                \E i \in surviving :
                   /\ call.result = imgs[i].src
                   /\ \A j \in surviving :
                         /\ ~StatedGreater(StatedTotal(imgs[j]), StatedTotal(imgs[i]))
                         /\ j < i => StatedGreater(StatedTotal(imgs[i]), StatedTotal(imgs[j]))

\* Three surviving candidates of which the last two have the highest total:
\* the earlier of the two is returned.
C15_Witness ==
    /\ call.fn = "_extract_thumbnail_url"
    /\ call.arg = << ContentImage("https://scontent/a.jpg", 100, 100),
                     ContentImage("https://fbcdn/b.jpg", 500, 800),
                     ContentImage("https://scontent/a.jpg", 800, 500) >>
    /\ call.result = "https://fbcdn/b.jpg"

\* C16: save_batch_data returns True exactly when every record of the batch
\* was written to the CSV.
C16_BatchAllOrFalse ==
    call.fn = "save_batch_data" => (call.result <=> csv = call.arg)

C18_EveryAcceptedRecordSaved ==
    (pc = "exit" /\ exit_code = 0 /\ ~sig.seen)
       => /\ Len(csv) = total_scraped
          /\ csv = [k \in 1..Len(yielded) |-> yielded[k].ad_data]

\* C21: a returned url is the src of an image of the card that is no data:
\* URI, holds a CDN fingerprint, holds no profile-picture fingerprint and has
\* not both dimensions known with one below 80; of a 60x60 profile_picture
\* image, a 100x100 square CDN image and an 800x500 CDN image below y = 50 the
\* last is returned.
C21_ThumbnailFilters ==
    call.fn = "_extract_thumbnail_url" =>
       /\ call.result # "" =>
             /\ ~SrcTable[call.result].data
             /\ SrcTable[call.result].cdn
             /\ ~SrcTable[call.result].profile
             /\ \E i \in 1..Len(call.arg) :
                   /\ call.arg[i].src = call.result
                   /\ (Width(call.arg[i]) > 0 /\ Height(call.arg[i]) > 0)
                         => (Width(call.arg[i]) >= 80 /\ Height(call.arg[i]) >= 80)
       /\ call.arg = << ContentImage("https://scontent/t/profile_picture.jpg", 60, 60),
                        ContentImage("https://fbcdn/b.jpg", 100, 100),
                        ContentImage("https://scontent/a.jpg", 800, 500) >>
             => call.result = "https://scontent/a.jpg"

C21_Witness ==
    /\ call.fn = "_extract_thumbnail_url"
    /\ call.arg = << ContentImage("https://scontent/t/profile_picture.jpg", 60, 60),
                     ContentImage("https://fbcdn/b.jpg", 100, 100),
                     ContentImage("https://scontent/a.jpg", 800, 500) >>
    /\ call.result = "https://scontent/a.jpg"

\* The k-th ancestor of element e (0 beyond the html element).
RECURSIVE Ancestor(_, _, _)
Ancestor(document, e, k) ==
    IF k = 0 \/ e = 0 THEN e ELSE Ancestor(document, document.nodes[e].parent, k - 1)

\* The ancestors of marker m by level, level 0 being m itself.
Ancestors(document, m) == [k \in 0..Levels |-> Ancestor(document, m, k)]

\* The levels that lie within the document body: no element below the level
\* is the body element or beyond html.
LevelsInBody(document, anc) ==
    { k \in 1..Levels :
        \A j \in 0..(k - 1) : anc[j] # 0 /\ document.nodes[anc[j]].tag # "body" }

QualifyingLevels(document, anc) ==
    { k \in LevelsInBody(document, anc) : _is_complete_ad_card(document.nodes[anc[k]]) }

\* The nearest qualifying ancestor of marker m; 0 when there is none.
NearestCard(document, m) ==
    LET anc == Ancestors(document, m)
        qualifying == QualifyingLevels(document, anc)
    IN  IF qualifying = {} THEN 0
        ELSE anc[CHOOSE k \in qualifying : \A j \in qualifying : k <= j]

\* The element each marker resolves to, by marker position.
Resolved(document) ==
    [k \in 1..Len(document.markers) |-> NearestCard(document, document.markers[k])]

\* The position of the first marker that resolves to element c.
FirstDiscovery(resolved, c) ==
    CHOOSE k \in 1..Len(resolved) :
        resolved[k] = c /\ \A j \in 1..(k - 1) : resolved[j] # c

\* C22: _find_ad_cards returns no element twice; an ancestor that several
\* markers resolve to is returned once, and the returned elements stand in
\* the order of their first discovery.
C22_NoCardTwice ==
    call.fn = "_find_ad_cards" =>
       LET cards == call.result.cards
           resolved == Resolved(call.arg)
       IN  /\ \A i, j \in 1..Len(cards) : cards[i] = cards[j] => i = j
           /\ \A k \in 1..Len(resolved) :
                 resolved[k] # 0
                    => Cardinality({ i \in 1..Len(cards) : cards[i] = resolved[k] }) = 1
           /\ \A i, j \in 1..Len(cards) :
                 i < j => FirstDiscovery(resolved, cards[i]) < FirstDiscovery(resolved, cards[j])

C22_Witness ==
    /\ call.fn = "_find_ad_cards"
    /\ call.arg = NestedDocument
    /\ call.result.cards = << 3, 5 >>

\* C23: each marker contributes its nearest ancestor that satisfies the
\* predicate among at most five levels inside the body, and nothing else; a
\* marker without one contributes nothing and the call does not raise; the
\* html element is never returned.
C23_NearestWithinFiveLevels ==
    call.fn = "_find_ad_cards" =>
       LET cards == call.result.cards
           document == call.arg
       IN  /\ ~call.result.raised
           /\ LET resolved == Resolved(document)
              IN  { cards[i] : i \in 1..Len(cards) }
                     = { resolved[k] : k \in 1..Len(resolved) } \ { 0 }
           /\ \A i \in 1..Len(cards) : document.nodes[cards[i]].tag # "html"

\* The deepest div of a chain is the only marker; its five nearest ancestors
\* do not qualify (one of them raises on element.text), body, the sixth, does.
C23_Witness ==
    /\ call.fn = "_find_ad_cards"
    /\ call.arg.markers = << Levels + 3 >>
    /\ Len(call.arg.nodes) = Levels + 3
    /\ \A e \in 3..(Levels + 2) : ~_is_complete_ad_card(call.arg.nodes[e])
    /\ \E e \in 3..(Levels + 2) : call.arg.nodes[e].stale
    /\ _is_complete_ad_card(call.arg.nodes[2])
    /\ call.result = [raised |-> FALSE, cards |-> << >>]

\* The tokens that hold a 4-digit year.
YearTokens ==
    { "Started running on Jul 1, 2025", "2025. 6. 26.", "2024. 1. 5.",
      "Started running on Jul 1, 2023" }

\* C24: the predicate accepts exactly when the text holds the identifier
\* marker and either a 4-digit year, whatever the year, or a platform token.
C24_PredicateAsStated ==
    call.fn = "_is_complete_ad_card" =>
       (call.result <=>
          /\ ~call.arg.stale
          /\ \E p \in 1..Len(call.arg.text) : call.arg.text[p] \in { "Library ID:", "KO_LIBRARY_ID:" }
          /\ \E p \in 1..Len(call.arg.text) :
                call.arg.text[p] \in YearTokens \cup { "Facebook", "Instagram", "KO_PLATFORM" })

\* scroll_to_bottom returns on every behaviour (checked under SpecScrollFair).
ScrollReturns == <>(pc = "fn_done")

\* C25: scroll_to_bottom executes at most max_scrolls scrolls and executes
\* none after a scroll that left the height equal or smaller.
C25_StopsAtFirstNonIncrease ==
    call.fn = "scroll_to_bottom" =>
       /\ call.performed <= call.max_scrolls
       /\ ~call.scrolled_on

\* C26: the integer scroll_to_bottom returns is the number of scrolls it
\* executed, the last one that loaded nothing included, and is at most
\* max_scrolls.
C26_ReturnsScrollsPerformed ==
    (call.fn = "scroll_to_bottom" /\ pc = "fn_done") =>
       /\ call.result = call.performed
       /\ call.result <= call.max_scrolls

C28_CountersAgree ==
    /\ total_scraped = Cardinality(processed_library_ids)
    /\ total_scraped = Len(yielded)
    /\ LET stats == get_scraping_statistics(total_scraped, errors, processed_library_ids)
       IN  stats.unique_ads_found = stats.total_scraped

\* Two records were yielded and a third card repeated an identifier.
C28_Witness ==
    /\ total_scraped = 2
    /\ Len(yielded) = 2
    /\ \E i \in Located : outcome[i] = { "duplicate" }
    /\ summary.generated

\* C29: when run has returned, _cleanup has closed every component that was
\* created, the scraper has no driver and is not initialized, and the exit
\* code is 0 only if _initialize_components and _run_scraping both returned
\* True.
C29_CleanupOnEveryPath ==
    pc = "exit" =>
       /\ scraper # None => "scraper" \in report.closed
       /\ storage # None => "storage" \in report.closed
       /\ driver = None
       /\ ~is_initialized
       /\ exit_code = 0 => (report.initialized = "True" /\ report.scraping = "True")

\* Scraping failed after the browser had been started, and both components
\* were closed.
C29_Witness ==
    /\ pc = "exit"
    /\ exit_code = 1
    /\ report = [initialized |-> "True", scraping |-> "False",
                 closed |-> { "scraper", "storage" }]
    /\ driver = None /\ ~is_initialized

YieldedIds(records) == { records[k].ad_data.library_id : k \in 1..Len(records) }

\* C30: no step of a scraper's life resets the seen-set, total_scraped or
\* the error list: close() and initialize() leave them as they are, a
\* scrape_ads call only adds to them, and a scrape_ads call yields no
\* identifier that an earlier call yielded.
C30_NeverReset ==
    /\ [][/\ processed_library_ids \subseteq processed_library_ids'
          /\ total_scraped' >= total_scraped
          /\ Len(errors') >= Len(errors)
          /\ SubSeq(errors', 1, Len(errors)) = errors
          /\ (call'.ops # call.ops /\ call'.fn \in { "close", "initialize" })
                => /\ processed_library_ids' = processed_library_ids
                   /\ total_scraped' = total_scraped
                   /\ errors' = errors
          /\ (call'.ops # call.ops /\ call'.fn = "scrape_ads")
                => /\ processed_library_ids' = processed_library_ids
                   /\ total_scraped' = total_scraped
          /\ SubSeq(yielded', 1, Len(yielded)) = yielded
          /\ \A k \in (Len(yielded) + 1)..Len(yielded') :
                yielded'[k].ad_data.library_id \notin YieldedIds(yielded)]_vars
    /\ [](\A j, k \in 1..Len(yielded) :
             yielded[j].ad_data.library_id = yielded[k].ad_data.library_id => j = k)

\* A first call yielded a record, the scraper was closed, and a second call,
\* which initialized it again, met the same identifier, passed it over and
\* kept the counters.
C30_Witness ==
    /\ pc = "life"
    /\ call = [fn |-> "scrape_ads", ops |-> << "scrape_ads", "close", "scrape_ads" >>,
               raised |-> FALSE, skipped |-> 1]
    /\ Len(yielded) = 1
    /\ total_scraped = 1
    /\ processed_library_ids = { "123456" }
    /\ driver = "Chrome" /\ is_initialized

====
